---- MODULE Spec2Model ----
(***************************************************************************)
(* Session coordination layer of the SFU backend: the WebSocketService     *)
(* (connection registry, message handlers, room broadcast) and the         *)
(* RoomService (rooms, participants, producers, consumers).                *)
(*                                                                         *)
(* The program runs on one event loop.  A handler runs without             *)
(* interruption up to an await of an external call (room-access check,     *)
(* router creation, audit log + webhook, media-engine calls); it is        *)
(* modelled as one task record whose pc names the await it is suspended    *)
(* on, and one action per continuation.  Handlers of different messages,   *)
(* also of the same connection, interleave at these awaits.                *)
(***************************************************************************)
EXTENDS Integers, Sequences, FiniteSets, Bags, TLC

\* ------------------------------------------------------------------ bounds
MaxConns == 4          \* sockets accepted in one behaviour
MaxRequests == 2       \* joinRoom / leaveRoom envelopes handled in one behaviour
MaxCreatedRooms == 1   \* createRoom requests in one behaviour
MaxNow == 1000         \* the clock stops advancing here (ms)
MaxHandles == 6        \* media-engine handles created in one behaviour
MaxIdle == 90000       \* the heartbeat timer stops firing here (ms)

\* ------------------------------------------------------- program constants
Scale == 2                    \* maxParticipants is kept in units of 1/Scale
DefaultMaxParticipants == 100 \* createRoom default and auto-created rooms
MinConnectionInterval == 500  \* ms between connection attempts of a user
NewJoinWindow == 1000         \* ms within which a participant counts as new
PingInterval == 30000         \* period of the heartbeat sweep (ms)
HeartbeatTimeout == 60000     \* lastPing older than this: the sweep closes
TickStep == MinConnectionInterval \div 2 \* granularity of the clock (ms)

\* ------------------------------------------------------------ input sets
Users == {"A", "B"}
SessionIds == {"abc"}                     \* externally minted room ids
Uuids == <<"uuid1", "uuid2", "uuid3">>    \* ids minted by createRoom
\* maxParticipants values a createRoom request carries, in units of 1/Scale:
\* 1 and 1.5 (the schema is z.number().min(1).max(1000), not an integer)
MaxParticipantsChoices == {1 * Scale, 3}

NoUser == "none"      \* credential missing or rejected
NoRoom == "none"      \* connection.roomId undefined
NoPid == 0            \* connection.participantId undefined
NoHandle == 0         \* sendTransport / recvTransport undefined
NoRequestId == "undefined"  \* message.requestId undefined

\* requestId members a client puts in an envelope
RequestIds == {NoRequestId, "", "r1"}

VARIABLES
  rooms,                  \* RoomService.rooms: room id -> Room
  participants,           \* RoomService.participants: participant id -> Participant
  connections,            \* WebSocketService.connections (registered ids)
  conn,                   \* every WebSocketConnection object ever built
                          \* (lastAck is history only: the time of its
                          \* registration or of its last pong)
  ws,                     \* every accepted socket: readyState, close code,
                          \* and, as history, whether handleDisconnection
                          \* has run for it, the user authenticated on it
                          \* and the time of the attempt
  roomConnections,        \* WebSocketService.roomConnections
  userConnectionAttempts, \* WebSocketService.userConnectionAttempts
  now,                    \* Date.now()
  tasks,                  \* suspended handlers
  out,                    \* envelopes sent by the step taken last
  delivered,              \* room events delivered so far: <<socket, type, participant>>
  handles,                \* media engine: every handle ever created
  nextConn, nextPid, nextReq, nextUuid, nextHandle, \* fresh identifiers
  last                    \* the step taken last (operation, request, outcome)

vars == <<rooms, participants, connections, conn, ws, roomConnections,
          userConnectionAttempts, now, tasks, out, delivered, handles,
          nextConn, nextPid, nextReq, nextUuid, nextHandle, last>>

\* --------------------------------------------------------------- helpers
EmptyFn == [x \in {} |-> 0]

Put(f, k, v) == [x \in DOMAIN f \cup {k} |-> IF x = k THEN v ELSE f[x]]

Drop(f, k) == [x \in DOMAIN f \ {k} |-> f[x]]

\* the step taken last: the operation, the await it resumed from (at),
\* the connection, the outcome, and the participant and room it is about
Event(op, c, result, pid, room) ==
  [op |-> op, at |-> "", conn |-> c, result |-> result, pid |-> pid, room |-> room,
   requestId |-> NoRequestId]

EventAt(op, at, c, result, pid, room) ==
  [Event(op, c, result, pid, room) EXCEPT !.at = at]

\* a step on an envelope that carried requestId
EventReq(op, c, result, pid, room, requestId) ==
  [Event(op, c, result, pid, room) EXCEPT !.requestId = requestId]

\* an envelope; infos is the participant list (ParticipantInfo records) of a
\* joinRoomResponse, or the one participant of a participantJoined event
Msg(type, room, pid, infos, error) ==
  [type |-> type, room |-> room, pid |-> pid, infos |-> infos, error |-> error,
   handle |-> NoHandle, requestId |-> NoRequestId,
   producerId |-> NoHandle, paused |-> FALSE]

\* an envelope about a transport, producer or consumer
MediaMsg(type, room, pid, h) ==
  [Msg(type, room, pid, {}, "") EXCEPT !.handle = h]

\* a suspended handler: its connection, message type, the await it is at,
\* the request data (roomId, hidden = metadata.isHidden, maxParticipants) and
\* its locals (pid, isHidden, joinedAt: the participant joinRoom returned;
\* roster: participantInfos) and message.requestId.  created is history
\* only, read by no action: whether joinRoom constructed the participant.
Task(c, type, pc, roomId, hidden, maxp) ==
  [conn |-> c, type |-> type, pc |-> pc, roomId |-> roomId,
   hidden |-> hidden, maxParticipants |-> maxp, pid |-> NoPid, roster |-> {},
   isHidden |-> FALSE, joinedAt |-> 0, created |-> FALSE,
   direction |-> "", handle |-> NoHandle, producerId |-> NoHandle,
   requestId |-> NoRequestId]

\* a suspended media handler: the participant id it passed on, the
\* direction asked for, the transport the engine call was made on and the
\* producer to consume
MediaTask(c, type, pc, roomId, pid, direction, h, producerId) ==
  [Task(c, type, pc, roomId, FALSE, 0) EXCEPT
     !.pid = pid, !.direction = direction, !.handle = h,
     !.producerId = producerId]

\* an envelope m put on the socket of connection c
Sent(c, m) == [to |-> c, msg |-> m]

\* WebSocketService.sendMessage: only to a registered connection whose
\* socket is OPEN
sendMessage(o, c, m) ==
  IF c \in connections /\ ws[c].readyState = "open"
  THEN o (+) SetToBag({Sent(c, m)})
  ELSE o

\* WebSocketService.sendError
sendError(o, c, error) ==
  sendMessage(o, c, Msg("error", NoRoom, NoPid, {}, error))

\* `...(requestId && { requestId })` in handleMessage and sendError: the
\* member is added when requestId is truthy (the empty string is not)
withRequestId(m, requestId) ==
  IF requestId # NoRequestId /\ requestId # ""
  THEN [m EXCEPT !.requestId = requestId]
  ELSE m

\* WebSocketService.sendError with its requestId argument
sendErrorWith(o, c, error, requestId) ==
  sendMessage(o, c, withRequestId(Msg("error", NoRoom, NoPid, {}, error), requestId))

\* broadcastToRoom that gives up when a recipient cannot be written to
broadcastToRoom_Aborting(o, rc, roomId, m, exclude) ==
  IF roomId \notin DOMAIN rc THEN o
  ELSE IF \E e \in rc[roomId] \ {exclude} :
            ~(e \in connections /\ ws[e].readyState = "open")
  THEN o
  ELSE o (+) SetToBag({Sent(c, m) : c \in rc[roomId] \ {exclude}})

\* broadcastToRoom that does not leave the excluded connection out
broadcastToRoom_All(o, rc, roomId, m, exclude) ==
  IF roomId \notin DOMAIN rc THEN o
  ELSE o (+) SetToBag({Sent(c, m) : c \in
                {e \in rc[roomId] : e \in connections
                                     /\ ws[e].readyState = "open"}})

\* WebSocketService.broadcastToRoom
broadcastToRoom(o, rc, roomId, m, exclude) ==
  IF roomId \notin DOMAIN rc THEN o
  ELSE o (+) SetToBag({Sent(c, m) : c \in
                {e \in rc[roomId] : e # exclude /\ e \in connections
                                     /\ ws[e].readyState = "open"}})

RoomEvents == {"participantJoined", "participantLeft", "producerCreated",
               "producerClosed", "producerPaused", "producerResumed"}

\* the room events of o added to the record of deliveries
Deliver(d, o) ==
  d \cup {<<e.to, e.msg.type, e.msg.pid>> :
            e \in {x \in BagToSet(o) : x.msg.type \in RoomEvents}}

\* ----------------------------------------------------------- RoomService
NewRoom(maxp) == [maxParticipants |-> maxp, isActive |-> TRUE, participants |-> {}]

NewParticipant(userId, roomId, isHidden, t) ==
  [userId |-> userId, roomId |-> roomId, isHidden |-> isHidden, joinedAt |-> t,
   sendTransport |-> NoHandle, recvTransport |-> NoHandle,
   producers |-> {}, consumers |-> {}, pausedProducers |-> {}]

\* joinRoom with the capacity test weakened to "more than"
joinRoom_CapacityGt(rms, parts, roomId, userId, hidden, newPid, t) ==
  LET room0 == rms[roomId]
      room == [room0 EXCEPT !.isActive = TRUE]
      rms1 == [rms EXCEPT ![roomId] = room]
      existing == {p \in room.participants : parts[p].userId = userId}
  IN IF Cardinality(room.participants) * Scale > room.maxParticipants
     THEN [rooms |-> rms1, participants |-> parts, result |-> "Room is full",
           pid |-> NoPid, created |-> FALSE]
     ELSE IF existing # {}
     THEN [rooms |-> rms1, participants |-> parts, result |-> "ok",
           pid |-> CHOOSE p \in existing : TRUE, created |-> FALSE]
     ELSE [rooms |-> [rms1 EXCEPT ![roomId].participants = @ \cup {newPid}],
           participants |-> Put(parts, newPid,
                                NewParticipant(userId, roomId, hidden, t)),
           result |-> "ok", pid |-> newPid, created |-> TRUE]

\* the part of RoomService.joinRoom after the room lookup / auto-creation.
\* rms already holds a Room under roomId; parts is the global index.
joinRoom(rms, parts, roomId, userId, hidden, newPid, t) ==
  LET room0 == rms[roomId]
      room == [room0 EXCEPT !.isActive = TRUE]
      rms1 == [rms EXCEPT ![roomId] = room]
      existing == {p \in room.participants : parts[p].userId = userId}
  IN IF Cardinality(room.participants) * Scale >= room.maxParticipants
     THEN [rooms |-> rms1, participants |-> parts, result |-> "Room is full",
           pid |-> NoPid, created |-> FALSE]
     ELSE IF existing # {}
     THEN [rooms |-> rms1, participants |-> parts, result |-> "ok",
           pid |-> CHOOSE p \in existing : TRUE, created |-> FALSE]
     ELSE [rooms |-> [rms1 EXCEPT ![roomId].participants = @ \cup {newPid}],
           participants |-> Put(parts, newPid,
                                NewParticipant(userId, roomId, hidden, t)),
           result |-> "ok", pid |-> newPid, created |-> TRUE]

\* handles owned by a participant object
OwnedHandles(p) ==
  ({p.sendTransport, p.recvTransport} \ {NoHandle})
    \cup p.producers \cup {c.id : c \in p.consumers}

\* leaveRoom that leaves an emptied room active
leaveRoom_StaysActive(rms, parts, roomId, pid) ==
  IF roomId \notin DOMAIN rms
  THEN [rooms |-> rms, participants |-> parts, result |-> "Room not found",
        closed |-> {}]
  ELSE IF pid \notin rms[roomId].participants
  THEN [rooms |-> rms, participants |-> parts, result |-> "Participant not found",
        closed |-> {}]
  ELSE [rooms |-> [rms EXCEPT ![roomId].participants = @ \ {pid}],
        participants |-> Drop(parts, pid),
        result |-> "ok",
        closed |-> OwnedHandles(parts[pid])]

\* leaveRoom that does not close the participant's consumers
leaveRoom_ConsumersOpen(rms, parts, roomId, pid) ==
  IF roomId \notin DOMAIN rms
  THEN [rooms |-> rms, participants |-> parts, result |-> "Room not found",
        closed |-> {}]
  ELSE IF pid \notin rms[roomId].participants
  THEN [rooms |-> rms, participants |-> parts, result |-> "Participant not found",
        closed |-> {}]
  ELSE LET left == rms[roomId].participants \ {pid}
       IN [rooms |-> [rms EXCEPT ![roomId] =
                        [@ EXCEPT !.participants = left,
                                  !.isActive = IF left = {} THEN FALSE ELSE @]],
           participants |-> Drop(parts, pid),
           result |-> "ok",
           closed |-> OwnedHandles(parts[pid])
                        \ {c.id : c \in parts[pid].consumers}]

\* RoomService.leaveRoom
leaveRoom(rms, parts, roomId, pid) ==
  IF roomId \notin DOMAIN rms
  THEN [rooms |-> rms, participants |-> parts, result |-> "Room not found",
        closed |-> {}]
  ELSE IF pid \notin rms[roomId].participants
  THEN [rooms |-> rms, participants |-> parts, result |-> "Participant not found",
        closed |-> {}]
  ELSE LET left == rms[roomId].participants \ {pid}
       IN [rooms |-> [rms EXCEPT ![roomId] =
                        [@ EXCEPT !.participants = left,
                                  !.isActive = IF left = {} THEN FALSE ELSE @]],
           participants |-> Drop(parts, pid),
           result |-> "ok",
           closed |-> OwnedHandles(parts[pid])]

\* media engine: a handle of a kind ("transport", "producer", "consumer"),
\* created on a transport (parent), with no close() call yet
NewHandle(kind, parent) ==
  [kind |-> kind, parent |-> parent, closeCalls |-> 0,
   paused |-> (kind = "consumer")]

\* media engine: one more close() call on each handle of hs
CloseAll(hdl, hs) ==
  [h \in DOMAIN hdl |-> IF h \in hs THEN [hdl[h] EXCEPT !.closeCalls = @ + 1]
                        ELSE hdl[h]]

\* media engine: a handle is usable while neither it nor the transport it
\* was created on has been closed
Live(hdl, h) ==
  /\ h \in DOMAIN hdl
  /\ hdl[h].closeCalls = 0
  /\ hdl[h].parent # NoHandle => hdl[hdl[h].parent].closeCalls = 0

\* ------------------------------------------------------------------ Init
Init ==
  /\ rooms = EmptyFn
  /\ participants = EmptyFn
  /\ connections = {}
  /\ conn = EmptyFn
  /\ ws = EmptyFn
  /\ roomConnections = EmptyFn
  /\ userConnectionAttempts = EmptyFn
  /\ now = 0
  /\ tasks = EmptyBag
  /\ out = EmptyBag
  /\ delivered = {}
  /\ handles = EmptyFn
  /\ nextConn = 1 /\ nextPid = 1 /\ nextReq = 1 /\ nextUuid = 1 /\ nextHandle = 1
  /\ last = Event("init", 0, "ok", NoPid, NoRoom)


\* ------------------------------------------------- connection lifecycle
\* rateLimited with the interval test turned around
rateLimited_After(u) ==
  /\ u \in DOMAIN userConnectionAttempts
  /\ now - userConnectionAttempts[u] > MinConnectionInterval

\* handleConnection: the user's last accepted attempt is less than the
\* minimum interval ago
rateLimited(u) ==
  /\ u \in DOMAIN userConnectionAttempts
  /\ now - userConnectionAttempts[u] < MinConnectionInterval

\* existingConnections that finds none
existingConnections_None(u) == {}

\* handleConnection: the registered connections of the user
existingConnections(u) == {e \in connections : conn[e].user = u}

\* WebSocketService.handleConnection, from the point where
\* authService.authenticateUser has settled; u = NoUser when it threw.
Rejected_LeftOpen(u) ==
  [readyState |-> "open", closeCode |-> 0, cleaned |-> FALSE, user |-> u,
   at |-> now]

\* the socket after ws.close(1008, ...): handleConnection's rate-limit
\* return and its catch
Rejected(u) ==
  [readyState |-> "closed", closeCode |-> 1008, cleaned |-> FALSE, user |-> u,
   at |-> now]

HandleConnection(u) ==
  /\ nextConn <= MaxConns
  /\ LET c == nextConn
         limited == rateLimited(u)
         existing == existingConnections(u)
     IN /\ nextConn' = c + 1
        /\ IF u = NoUser \/ limited
           THEN /\ ws' = Put(ws, c, Rejected(u))
                /\ out' = EmptyBag
                /\ last' = Event("connect", c,
                                 IF u = NoUser THEN "Authentication failed"
                                 ELSE "Rate limited", NoPid, NoRoom)
                /\ UNCHANGED <<connections, conn, userConnectionAttempts>>
           ELSE /\ userConnectionAttempts' = Put(userConnectionAttempts, u, now)
                /\ ws' = Put([e \in DOMAIN ws |->
                                IF e \in existing /\ ws[e].readyState = "open"
                                THEN [ws[e] EXCEPT !.readyState = "closing",
                                                   !.closeCode = 1000]
                                ELSE ws[e]],
                             c, [readyState |-> "open", closeCode |-> 0,
                                 cleaned |-> FALSE, user |-> u, at |-> now])
                /\ connections' = (connections \ existing) \cup {c}
                /\ conn' = Put(conn, c, [user |-> u, participantId |-> NoPid,
                                         roomId |-> NoRoom, lastPing |-> now,
                                         lastAck |-> now])
                /\ out' = SetToBag({Sent(c, Msg("connected", NoRoom, NoPid, {}, ""))})
                /\ last' = Event("connect", c, "ok", NoPid, NoRoom)
  /\ UNCHANGED <<rooms, participants, roomConnections, now, tasks, handles,
                 nextPid, nextReq, nextUuid, nextHandle>>
  /\ delivered' = Deliver(delivered, out')

\* WebSocketService.broadcastToRoom, on a given registry and given sockets
broadcastIn(o, rc, cons, wsx, roomId, m, exclude) ==
  IF roomId \notin DOMAIN rc THEN o
  ELSE o (+) SetToBag({Sent(c, m) : c \in
                {e \in rc[roomId] : e # exclude /\ e \in cons
                                     /\ wsx[e].readyState = "open"}})

\* the state the connection handlers work on, with the envelopes sent so far
\* in this step and the outcome of RoomService.leaveRoom
ServiceState ==
  [rooms |-> rooms, participants |-> participants, handles |-> handles,
   roomConnections |-> roomConnections, connections |-> connections,
   conn |-> conn, ws |-> ws, out |-> EmptyBag, result |-> "ok"]

\* handleDisconnection that only deregisters and notifies
handleDisconnection_NoLeave(st, c) ==
  LET pid == st.conn[c].participantId
      rid == st.conn[c].roomId
      st1 == [st EXCEPT !.ws[c].cleaned = TRUE, !.connections = @ \ {c}]
  IN IF pid # NoPid /\ rid # NoRoom
     THEN [st1 EXCEPT
             !.out = broadcastIn(@, st.roomConnections, st.connections, st.ws,
                       rid, Msg("participantLeft", rid, pid, {}, ""), c),
             !.roomConnections =
                IF rid \in DOMAIN @ THEN [@ EXCEPT ![rid] = @ \ {c}] ELSE @]
     ELSE st1

\* WebSocketService.handleDisconnection: RoomService.leaveRoom with the
\* connection's participant and room (a rejection is logged only), the
\* participantLeft broadcast, the removal from the room's broadcast set and
\* from the registry.  The connection's participantId and roomId stay.
handleDisconnection(st, c) ==
  LET pid == st.conn[c].participantId
      rid == st.conn[c].roomId
      r == leaveRoom(st.rooms, st.participants, rid, pid)
      st1 == [st EXCEPT !.ws[c].cleaned = TRUE, !.connections = @ \ {c}]
  IN IF pid # NoPid /\ rid # NoRoom
     THEN [st1 EXCEPT
             !.rooms = r.rooms,
             !.participants = r.participants,
             !.handles = CloseAll(@, r.closed),
             !.out = broadcastIn(@, st.roomConnections, st.connections, st.ws,
                       rid, Msg("participantLeft", rid, pid, {}, ""), c),
             !.roomConnections =
                IF rid \in DOMAIN @ THEN [@ EXCEPT ![rid] = @ \ {c}] ELSE @,
             !.result = r.result]
     ELSE st1

\* the service state st becomes the state of the program
Commit(st) ==
  /\ rooms' = st.rooms
  /\ participants' = st.participants
  /\ handles' = st.handles
  /\ roomConnections' = st.roomConnections
  /\ connections' = st.connections
  /\ conn' = st.conn
  /\ ws' = st.ws
  /\ out' = st.out

\* the step was a run of handleDisconnection for connection c
Disconnected(op, c, st) ==
  IF conn[c].participantId # NoPid /\ conn[c].roomId # NoRoom
  THEN Event(op, c, st.result, conn[c].participantId, conn[c].roomId)
  ELSE Event(op, c, "ok", NoPid, NoRoom)

\* the socket's 'close' event (the peer went away, or a close started by the
\* server or by an error has completed): handleDisconnection
CloseEvent(c) ==
  /\ c \in DOMAIN conn
  /\ ws[c].readyState \in {"open", "closing"}
  /\ LET st == handleDisconnection(
                 [ServiceState EXCEPT !.ws[c].readyState = "closed",
                    !.ws[c].closeCode = IF @ = 0 THEN 1001 ELSE @], c)
     IN Commit(st) /\ last' = Disconnected("disconnect", c, st)
  /\ UNCHANGED <<userConnectionAttempts, now, tasks,
                 nextConn, nextPid, nextReq, nextUuid, nextHandle>>
  /\ delivered' = Deliver(delivered, out')

\* the socket's 'error' event on an open socket: handleDisconnection; the
\* socket is on its way to closed and its 'close' event follows
ErrorEvent(c) ==
  /\ c \in DOMAIN conn
  /\ ws[c].readyState = "open"
  /\ LET st == handleDisconnection(
                 [ServiceState EXCEPT !.ws[c].readyState = "closing",
                                      !.ws[c].closeCode = 1006], c)
     IN Commit(st) /\ last' = Disconnected("error", c, st)
  /\ UNCHANGED <<userConnectionAttempts, now, tasks,
                 nextConn, nextPid, nextReq, nextUuid, nextHandle>>
  /\ delivered' = Deliver(delivered, out')

\* WebSocketService.closeConnection: ws.close(1000, reason) and
\* handleDisconnection, for a registered connection
closeConnection(st, c) ==
  IF c \notin st.connections THEN st
  ELSE handleDisconnection(
         IF st.ws[c].readyState = "open"
         THEN [st EXCEPT !.ws[c].readyState = "closing", !.ws[c].closeCode = 1000]
         ELSE st, c)

\* WebSocketService.pingConnections at time t, over the registered
\* connections cs still to visit, in the order of their registration
RECURSIVE pingConnections(_, _, _)
pingConnections(st, cs, t) ==
  IF cs = {} THEN st
  ELSE LET c == CHOOSE x \in cs : \A y \in cs : x <= y
           rest == cs \ {c}
       IN IF t - st.conn[c].lastPing > HeartbeatTimeout
          THEN pingConnections(closeConnection(st, c), rest, t)
          ELSE IF st.ws[c].readyState = "open"
          THEN pingConnections([st EXCEPT !.conn[c].lastPing = t], rest, t)
          ELSE pingConnections(st, rest, t)

\* the heartbeat timer fires: pingConnections
PingTimer ==
  /\ now >= PingInterval
  /\ LET st == pingConnections(ServiceState, connections, now)
     IN /\ Commit(st)
        /\ last' = Event("sweep", 0,
                         IF st.connections = connections THEN "ok" ELSE "timeout",
                         NoPid, NoRoom)
  /\ UNCHANGED <<userConnectionAttempts, now, tasks,
                 nextConn, nextPid, nextReq, nextUuid, nextHandle>>
  /\ delivered' = Deliver(delivered, out')

\* the socket's 'pong' event
Pong(c) ==
  /\ c \in DOMAIN conn
  /\ ws[c].readyState = "open"
  /\ conn' = [conn EXCEPT ![c].lastPing = now, ![c].lastAck = now]
  /\ out' = EmptyBag
  /\ last' = Event("pong", c, "ok", NoPid, NoRoom)
  /\ UNCHANGED <<rooms, participants, connections, ws, roomConnections,
                 userConnectionAttempts, now, tasks, handles,
                 nextConn, nextPid, nextReq, nextUuid, nextHandle>>
  /\ delivered' = Deliver(delivered, out')

\* a heartbeat period passes
Idle ==
  /\ now + PingInterval <= MaxIdle
  /\ now' = now + PingInterval
  /\ out' = EmptyBag
  /\ last' = Event("idle", 0, "ok", NoPid, NoRoom)
  /\ UNCHANGED <<rooms, participants, connections, conn, ws, roomConnections,
                 userConnectionAttempts, tasks, handles,
                 nextConn, nextPid, nextReq, nextUuid, nextHandle>>
  /\ delivered' = Deliver(delivered, out')

\* time passes
Tick ==
  /\ now + TickStep <= MaxNow
  /\ now' = now + TickStep
  /\ out' = EmptyBag
  /\ last' = Event("tick", 0, "ok", NoPid, NoRoom)
  /\ UNCHANGED <<rooms, participants, connections, conn, ws, roomConnections,
                 userConnectionAttempts, tasks, handles,
                 nextConn, nextPid, nextReq, nextUuid, nextHandle>>
  /\ delivered' = Deliver(delivered, out')

\* a socket on which a frame can arrive: handlers are installed and it is OPEN
CanReceive(c) ==
  /\ c \in DOMAIN conn
  /\ ws[c].readyState = "open"

\* room ids a client may name
KnownRoomIds == SessionIds \cup DOMAIN rooms


\* ------------------------------------------------------------ createRoom
\* handleCreateRoom up to the await of mediasoupService.createRouter
\* (RoomService.createRoom has drawn the room's uuid already)
RecvCreateRoom(c, maxp) ==
  /\ CanReceive(c)
  /\ nextUuid <= MaxCreatedRooms
  /\ nextReq' = nextReq
  /\ tasks' = tasks (+) SetToBag({Task(c, "createRoom", "createRouter",
                               Uuids[nextUuid], FALSE, maxp)})
  /\ nextUuid' = nextUuid + 1
  /\ out' = EmptyBag
  /\ last' = Event("recv", c, "createRoom", NoPid, Uuids[nextUuid])
  /\ UNCHANGED <<rooms, participants, connections, conn, ws, roomConnections,
                 userConnectionAttempts, now, handles,
                 nextConn, nextPid, nextHandle>>
  /\ delivered' = Deliver(delivered, out')

\* RoomService.createRoom after createRouter settled, then handleCreateRoom
\* up to the awaits of the audit log and the webhook
CreateRoomCreated(t, ok) ==
  /\ t \in BagToSet(tasks) /\ t.type = "createRoom" /\ t.pc = "createRouter"
  /\ IF ok
     THEN /\ rooms' = Put(rooms, t.roomId, NewRoom(t.maxParticipants))
          /\ tasks' = (tasks (-) SetToBag({t})) (+) SetToBag({[t EXCEPT !.pc = "audit"]})
          /\ out' = EmptyBag
          /\ last' = Event("createRoom", t.conn, "ok", NoPid, t.roomId)
     ELSE /\ rooms' = rooms
          /\ tasks' = tasks (-) SetToBag({t})
          /\ out' = sendError(EmptyBag, t.conn, "Failed to create room")
          /\ last' = Event("createRoom", t.conn, "Failed to create room",
                           NoPid, t.roomId)
  /\ UNCHANGED <<participants, connections, conn, ws, roomConnections,
                 userConnectionAttempts, now, handles,
                 nextConn, nextPid, nextReq, nextUuid, nextHandle>>
  /\ delivered' = Deliver(delivered, out')

\* handleCreateRoom after the audit log (failure swallowed) and the webhook
\* (failure thrown) settled, and handleMessage's reply
CreateRoomFinish(t, webhookOk) ==
  /\ t \in BagToSet(tasks) /\ t.type = "createRoom" /\ t.pc = "audit"
  /\ tasks' = tasks (-) SetToBag({t})
  /\ IF webhookOk
     THEN /\ out' = sendMessage(EmptyBag, t.conn,
                        Msg("createRoomResponse", t.roomId, NoPid, {}, ""))
          /\ last' = Event("reply", t.conn, "createRoomResponse", NoPid, t.roomId)
     ELSE /\ out' = sendError(EmptyBag, t.conn, "DJANGO_WEBHOOK_ERROR")
          /\ last' = Event("reply", t.conn, "DJANGO_WEBHOOK_ERROR",
                           NoPid, t.roomId)
  /\ UNCHANGED <<rooms, participants, connections, conn, ws, roomConnections,
                 userConnectionAttempts, now, handles,
                 nextConn, nextPid, nextReq, nextUuid, nextHandle>>
  /\ delivered' = Deliver(delivered, out')

\* -------------------------------------------------------------- joinRoom
\* handleJoinRoom up to the await of authService.validateRoomAccess
RecvJoinRoom(c, roomId, hidden) ==
  /\ CanReceive(c)
  /\ nextReq <= MaxRequests
  /\ roomId \in KnownRoomIds
  /\ tasks' = tasks (+) SetToBag({Task(c, "joinRoom", "access", roomId, hidden, 0)})
  /\ nextReq' = nextReq + 1
  /\ out' = EmptyBag
  /\ last' = Event("recv", c, "joinRoom", NoPid, roomId)
  /\ UNCHANGED <<rooms, participants, connections, conn, ws, roomConnections,
                 userConnectionAttempts, now, handles,
                 nextConn, nextPid, nextUuid, nextHandle>>
  /\ delivered' = Deliver(delivered, out')

\* RoomService.getParticipantInfo
getParticipantInfo(p, userId, isHidden) ==
  [id |-> p, userId |-> userId, isHidden |-> isHidden, producers |-> {}]

\* visibleParticipants without the filter
visibleParticipants_Unfiltered(rms, parts, roomId, isObserver) ==
  IF roomId \in DOMAIN rms THEN rms[roomId].participants ELSE {}

\* the participants handleJoinRoom lists: getRoomParticipants, filtered for
\* a joiner that is not an observer
visibleParticipants(rms, parts, roomId, isObserver) ==
  LET ps == IF roomId \in DOMAIN rms THEN rms[roomId].participants ELSE {}
  IN IF isObserver THEN ps ELSE {p \in ps : ~parts[p].isHidden}

\* participantInfos of handleJoinRoom: each listed participant's info with
\* the ids of its producers
participantInfos(rms, parts, roomId, isObserver) ==
  {[getParticipantInfo(p, parts[p].userId, parts[p].isHidden)
      EXCEPT !.producers = parts[p].producers] :
     p \in visibleParticipants(rms, parts, roomId, isObserver)}

\* autoCreateRoom keeping a Room that is registered already
autoCreateRoom_KeepExisting(rms, roomId) ==
  IF roomId \in DOMAIN rms THEN rms
  ELSE Put(rms, roomId, NewRoom(DefaultMaxParticipants * Scale))

\* RoomService.joinRoom's auto-creation: the Room createRoom built is
\* registered under the requested id, replacing whatever is there
autoCreateRoom(rms, roomId) ==
  Put(rms, roomId, NewRoom(DefaultMaxParticipants * Scale))

\* RoomService.joinRoom from its capacity check on, then handleJoinRoom up to
\* the awaits of the audit log and the webhook.  rms is RoomService.rooms
\* after the room lookup (and auto-creation, if any).
JoinTail(t, rms) ==
  LET c == t.conn
      r == joinRoom(rms, participants, t.roomId, conn[c].user, t.hidden,
                    nextPid, now)
  IN /\ rooms' = r.rooms
     /\ participants' = r.participants
     /\ nextPid' = IF r.created THEN nextPid + 1 ELSE nextPid
     /\ IF r.result # "ok"
        THEN /\ out' = sendError(EmptyBag, c, r.result)
             /\ tasks' = tasks (-) SetToBag({t})
             /\ UNCHANGED <<conn, roomConnections>>
             /\ last' = EventAt("joinRoom", t.pc, c, r.result, NoPid, t.roomId)
        ELSE /\ conn' = [conn EXCEPT ![c].participantId = r.pid,
                                     ![c].roomId = t.roomId]
             /\ roomConnections' =
                  Put(roomConnections, t.roomId,
                      (IF t.roomId \in DOMAIN roomConnections
                       THEN roomConnections[t.roomId] ELSE {}) \cup {c})
             /\ tasks' = (tasks (-) SetToBag({t})) (+) SetToBag(
                  {[t EXCEPT !.pc = "audit", !.pid = r.pid,
                     !.isHidden = r.participants[r.pid].isHidden,
                     !.joinedAt = r.participants[r.pid].joinedAt,
                     !.created = r.created,
                     !.roster = participantInfos(r.rooms, r.participants,
                                  t.roomId, r.participants[r.pid].isHidden)]})
             /\ out' = EmptyBag
             /\ last' = EventAt("joinRoom", t.pc, c,
                                IF r.created THEN "created" ELSE "existing",
                                r.pid, t.roomId)

\* handleJoinRoom after validateRoomAccess settled
JoinAccess(t, hasAccess) ==
  /\ t \in BagToSet(tasks) /\ t.type = "joinRoom" /\ t.pc = "access"
  /\ IF ~hasAccess
     THEN /\ tasks' = tasks (-) SetToBag({t})
          /\ out' = sendError(EmptyBag, t.conn, "ROOM_ACCESS_DENIED")
          /\ last' = EventAt("joinRoom", t.pc, t.conn, "ROOM_ACCESS_DENIED",
                             NoPid, t.roomId)
          /\ UNCHANGED <<rooms, participants, conn, roomConnections, nextPid>>
     ELSE IF t.roomId \notin DOMAIN rooms
     THEN \* RoomService.joinRoom awaits createRoom
          /\ tasks' = (tasks (-) SetToBag({t})) (+) SetToBag({[t EXCEPT !.pc = "createRouter"]})
          /\ last' = EventAt("joinRoom", t.pc, t.conn, "auto-create",
                             NoPid, t.roomId)
          /\ UNCHANGED <<rooms, participants, conn, roomConnections, nextPid>>
          /\ out' = EmptyBag
     ELSE JoinTail(t, rooms)
  /\ UNCHANGED <<connections, ws, userConnectionAttempts, now, handles,
                 nextConn, nextReq, nextUuid, nextHandle>>
  /\ delivered' = Deliver(delivered, out')

\* RoomService.joinRoom after the createRoom it awaited settled: the new
\* Room is registered under the requested id, replacing whatever is there
JoinCreated(t, ok) ==
  /\ t \in BagToSet(tasks) /\ t.type = "joinRoom" /\ t.pc = "createRouter"
  /\ IF ok
     THEN JoinTail(t, autoCreateRoom(rooms, t.roomId))
     ELSE /\ tasks' = tasks (-) SetToBag({t})
          /\ out' = sendError(EmptyBag, t.conn, "Failed to create room")
          /\ last' = EventAt("joinRoom", t.pc, t.conn, "Failed to create room",
                             NoPid, t.roomId)
          /\ UNCHANGED <<rooms, participants, conn, roomConnections, nextPid>>
  /\ UNCHANGED <<connections, ws, userConnectionAttempts, now, handles,
                 nextConn, nextReq, nextUuid, nextHandle>>
  /\ delivered' = Deliver(delivered, out')

\* a participant counts as newly joined for NewJoinWindow ms
isNewParticipant(joinedAt, t) == joinedAt > t - NewJoinWindow

\* shouldAnnounce without the hidden test
shouldAnnounce_Hidden(joinedAt, isHidden, t) ==
  isNewParticipant(joinedAt, t)

\* whether handleJoinRoom announces the participant to the room
shouldAnnounce(joinedAt, isHidden, t) ==
  isNewParticipant(joinedAt, t) /\ ~isHidden

\* handleJoinRoom after the audit log and the webhook settled: the
\* participantJoined broadcast, then handleMessage's reply
JoinFinish(t, webhookOk) ==
  /\ t \in BagToSet(tasks) /\ t.type = "joinRoom" /\ t.pc = "audit"
  /\ tasks' = tasks (-) SetToBag({t})
  /\ IF webhookOk
     THEN LET announce == shouldAnnounce(t.joinedAt, t.isHidden, now)
              out1 == IF announce
                        THEN broadcastToRoom(EmptyBag, roomConnections, t.roomId,
                               Msg("participantJoined", t.roomId, t.pid,
                                   {getParticipantInfo(t.pid, conn[t.conn].user,
                                                       t.isHidden)}, ""),
                               t.conn)
                        ELSE EmptyBag
          IN /\ out' = sendMessage(out1, t.conn,
                           Msg("joinRoomResponse", t.roomId, NoPid, t.roster, ""))
             /\ last' = Event("reply", t.conn,
                              IF announce THEN "joinRoomResponse+announce"
                              ELSE "joinRoomResponse", t.pid, t.roomId)
     ELSE /\ out' = sendError(EmptyBag, t.conn, "DJANGO_WEBHOOK_ERROR")
          /\ last' = Event("reply", t.conn, "DJANGO_WEBHOOK_ERROR",
                           t.pid, t.roomId)
  /\ UNCHANGED <<rooms, participants, connections, conn, ws, roomConnections,
                 userConnectionAttempts, now, handles,
                 nextConn, nextPid, nextReq, nextUuid, nextHandle>>
  /\ delivered' = Deliver(delivered, out')


\* ------------------------------------------------------------- leaveRoom
\* handleLeaveRoom up to the awaits of the audit log and the webhook
RecvLeaveRoom(c, roomId) ==
  /\ CanReceive(c)
  /\ nextReq <= MaxRequests
  /\ roomId \in KnownRoomIds
  /\ nextReq' = nextReq + 1
  /\ IF conn[c].participantId = NoPid \/ conn[c].roomId = NoRoom
     THEN /\ out' = sendError(EmptyBag, c, "PARTICIPANT_NOT_IN_ROOM")
          /\ tasks' = tasks
          /\ last' = Event("leaveRoom", c, "PARTICIPANT_NOT_IN_ROOM",
                           NoPid, roomId)
     ELSE IF conn[c].participantId \notin DOMAIN participants
     THEN /\ out' = sendError(EmptyBag, c, "PARTICIPANT_NOT_FOUND")
          /\ tasks' = tasks
          /\ last' = Event("leaveRoom", c, "PARTICIPANT_NOT_FOUND",
                           conn[c].participantId, roomId)
     ELSE /\ out' = EmptyBag
          /\ tasks' = tasks (+) SetToBag({Task(c, "leaveRoom", "audit", roomId,
                                                  FALSE, 0)})
          /\ last' = Event("recv", c, "leaveRoom", NoPid, roomId)
  /\ UNCHANGED <<rooms, participants, connections, conn, ws, roomConnections,
                 userConnectionAttempts, now, handles,
                 nextConn, nextPid, nextUuid, nextHandle>>
  /\ delivered' = Deliver(delivered, out')

\* handleLeaveRoom after the audit log and the webhook settled: the
\* participantLeft broadcast into data.roomId, RoomService.leaveRoom with the
\* connection's participant id as it is now, and handleMessage's reply
LeaveFinish(t, webhookOk) ==
  /\ t \in BagToSet(tasks) /\ t.type = "leaveRoom" /\ t.pc = "audit"
  /\ tasks' = tasks (-) SetToBag({t})
  /\ LET c == t.conn
         pid == conn[c].participantId
         out1 == broadcastToRoom(EmptyBag, roomConnections, t.roomId,
                     Msg("participantLeft", t.roomId, pid, {}, ""), c)
         r == leaveRoom(rooms, participants, t.roomId, pid)
         rc1 == IF t.roomId \in DOMAIN roomConnections
                THEN [roomConnections EXCEPT ![t.roomId] = @ \ {c}]
                ELSE roomConnections
     IN IF ~webhookOk
        THEN /\ out' = sendError(EmptyBag, c, "DJANGO_WEBHOOK_ERROR")
             /\ last' = Event("leaveRoom", c, "DJANGO_WEBHOOK_ERROR", pid, t.roomId)
             /\ UNCHANGED <<rooms, participants, handles, roomConnections, conn>>
        ELSE IF r.result # "ok"
        THEN /\ out' = sendError(out1, c, r.result)
             /\ last' = Event("leaveRoom", c, r.result, pid, t.roomId)
             /\ UNCHANGED <<rooms, participants, handles, roomConnections, conn>>
        ELSE /\ rooms' = r.rooms
             /\ participants' = r.participants
             /\ handles' = CloseAll(handles, r.closed)
             /\ roomConnections' =
                  IF t.roomId \in DOMAIN rc1 /\ rc1[t.roomId] = {}
                  THEN Drop(rc1, t.roomId) ELSE rc1
             /\ conn' = [conn EXCEPT ![c].participantId = NoPid,
                                     ![c].roomId = NoRoom]
             /\ out' = sendMessage(out1, c,
                           Msg("leaveRoomResponse", NoRoom, NoPid, {}, ""))
             /\ last' = Event("leaveRoom", c, "ok", pid, t.roomId)
  /\ UNCHANGED <<connections, ws, userConnectionAttempts, now,
                 nextConn, nextPid, nextReq, nextUuid, nextHandle>>
  /\ delivered' = Deliver(delivered, out')

\* ----------------------------------------------------------------- media
\* new SFUError(code, message, details): the code and the message
SFUError(code, message) == [code |-> code, message |-> message]

createParticipantError(code, message) == SFUError(code, message)

\* the first argument of createSystemError is the message; the code is
\* always INTERNAL_ERROR and the second argument goes to the details
createSystemError(message, component) == SFUError("INTERNAL_ERROR", message)

\* the error of RoomService.createProducer / createConsumer for a
\* participant without a transport of the direction
TransportNotFound(direction) ==
  createParticipantError("TRANSPORT_NOT_FOUND",
    IF direction = "send" THEN "Send transport not found"
    ELSE "Receive transport not found")

HoldsTransport_Always(p, direction) == TRUE

\* participant.sendTransport / participant.recvTransport is set
HoldsTransport(p, direction) ==
  (IF direction = "send" THEN p.sendTransport ELSE p.recvTransport) # NoHandle

\* handlers suspended on a media-engine call that creates a handle
CreatingHandles ==
  BagCardinality(
    [t \in {x \in BagToSet(tasks) :
              x.pc \in {"createTransport", "createProducer", "createConsumer"}}
       |-> tasks[t]])

\* the checks every media handler starts with, and those of the RoomService
\* method it calls: "" when they pass, the error otherwise
MediaChecks(c, roomId) ==
  IF conn[c].participantId = NoPid \/ conn[c].roomId = NoRoom
  THEN "PARTICIPANT_NOT_IN_ROOM"
  ELSE IF roomId \notin DOMAIN rooms THEN "Room not found"
  ELSE IF conn[c].participantId \notin rooms[roomId].participants
  THEN "Participant not found"
  ELSE ""

\* a media request refused before any await
MediaRefused(c, op, roomId, error) ==
  /\ out' = sendError(EmptyBag, c, error)
  /\ last' = Event(op, c, error, conn[c].participantId, roomId)
  /\ UNCHANGED <<participants, handles, tasks>>

\* handleCreateWebRtcTransport up to RoomService.createTransport's await of
\* mediasoupService.createWebRtcTransport
RecvCreateTransport(c, roomId, direction) ==
  /\ CanReceive(c)
  /\ roomId \in KnownRoomIds
  /\ nextHandle + CreatingHandles <= MaxHandles
  /\ LET error == MediaChecks(c, roomId)
     IN IF error # ""
        THEN MediaRefused(c, "createWebRtcTransport", roomId, error)
        ELSE /\ tasks' = tasks (+) SetToBag({MediaTask(c, "createWebRtcTransport",
                            "createTransport", roomId, conn[c].participantId,
                            direction, NoHandle, NoHandle)})
             /\ out' = EmptyBag
             /\ last' = Event("recv", c, "createWebRtcTransport",
                              conn[c].participantId, roomId)
             /\ UNCHANGED <<participants, handles>>
  /\ UNCHANGED <<rooms, connections, conn, ws, roomConnections,
                 userConnectionAttempts, now,
                 nextConn, nextPid, nextReq, nextUuid, nextHandle>>
  /\ delivered' = Deliver(delivered, out')

\* RoomService.createTransport after the engine call settled: the transport
\* is stored on the Participant object the method looked up (replacing the
\* one of that direction), and handleMessage replies
TransportCreated(t, ok) ==
  /\ t \in BagToSet(tasks) /\ t.pc = "createTransport"
  /\ tasks' = tasks (-) SetToBag({t})
  /\ IF ok
     THEN /\ handles' = Put(handles, nextHandle, NewHandle("transport", NoHandle))
          /\ nextHandle' = nextHandle + 1
          /\ participants' =
               IF t.pid \notin DOMAIN participants THEN participants
               ELSE IF t.direction = "send"
               THEN [participants EXCEPT ![t.pid].sendTransport = nextHandle]
               ELSE [participants EXCEPT ![t.pid].recvTransport = nextHandle]
          /\ out' = sendMessage(EmptyBag, t.conn,
                      MediaMsg("createWebRtcTransportResponse", t.roomId, t.pid,
                               nextHandle))
          /\ last' = Event("createWebRtcTransport", t.conn, "ok", t.pid, t.roomId)
     ELSE /\ out' = sendError(EmptyBag, t.conn, "Failed to create transport")
          /\ last' = Event("createWebRtcTransport", t.conn,
                           "Failed to create transport", t.pid, t.roomId)
          /\ UNCHANGED <<participants, handles, nextHandle>>
  /\ UNCHANGED <<rooms, connections, conn, ws, roomConnections,
                 userConnectionAttempts, now,
                 nextConn, nextPid, nextReq, nextUuid>>
  /\ delivered' = Deliver(delivered, out')

\* handlePublish up to RoomService.createProducer's await of
\* mediasoupService.createProducer
RecvPublish(c, roomId) ==
  /\ CanReceive(c)
  /\ roomId \in KnownRoomIds
  /\ nextHandle + CreatingHandles <= MaxHandles
  /\ LET error == MediaChecks(c, roomId)
         pid == conn[c].participantId
     IN IF error # ""
        THEN MediaRefused(c, "publish", roomId, error)
        ELSE IF ~HoldsTransport(participants[pid], "send")
        THEN MediaRefused(c, "publish", roomId, TransportNotFound("send").message)
        ELSE /\ tasks' = tasks (+) SetToBag({MediaTask(c, "publish",
                            "createProducer", roomId, pid, "send",
                            participants[pid].sendTransport, NoHandle)})
             /\ out' = EmptyBag
             /\ last' = Event("recv", c, "publish", pid, roomId)
             /\ UNCHANGED <<participants, handles>>
  /\ UNCHANGED <<rooms, connections, conn, ws, roomConnections,
                 userConnectionAttempts, now,
                 nextConn, nextPid, nextReq, nextUuid, nextHandle>>
  /\ delivered' = Deliver(delivered, out')

\* RoomService.createProducer after the engine call settled (the engine
\* refuses a closed transport), then handlePublish's producerCreated
\* broadcast and handleMessage's reply
ProducerCreated(t, ok) ==
  /\ t \in BagToSet(tasks) /\ t.pc = "createProducer"
  /\ ok => Live(handles, t.handle)
  /\ tasks' = tasks (-) SetToBag({t})
  /\ IF ok
     THEN /\ handles' = Put(handles, nextHandle, NewHandle("producer", t.handle))
          /\ nextHandle' = nextHandle + 1
          /\ participants' =
               IF t.pid \notin DOMAIN participants THEN participants
               ELSE [participants EXCEPT ![t.pid].producers = @ \cup {nextHandle}]
          /\ out' = sendMessage(
                      broadcastToRoom(EmptyBag, roomConnections, t.roomId,
                        MediaMsg("producerCreated", t.roomId,
                                 conn[t.conn].participantId, nextHandle), t.conn),
                      t.conn,
                      MediaMsg("publishResponse", t.roomId, NoPid, nextHandle))
          /\ last' = Event("publish", t.conn, "ok", t.pid, t.roomId)
     ELSE /\ out' = sendError(EmptyBag, t.conn, "Failed to create producer")
          /\ last' = Event("publish", t.conn, "Failed to create producer",
                           t.pid, t.roomId)
          /\ UNCHANGED <<participants, handles, nextHandle>>
  /\ UNCHANGED <<rooms, connections, conn, ws, roomConnections,
                 userConnectionAttempts, now,
                 nextConn, nextPid, nextReq, nextUuid>>
  /\ delivered' = Deliver(delivered, out')

\* IndexChecks without the test of the connection's participant and room
IndexChecks_NoRoomCheck(c) ==
  IF conn[c].participantId \notin DOMAIN participants
  THEN "PARTICIPANT_NOT_FOUND"
  ELSE ""

\* the checks of handleUnpublish, handleUnsubscribe and the handlers of
\* calls on a transport, producer or consumer, which look the participant
\* up in the global index
IndexChecks(c) ==
  IF conn[c].participantId = NoPid \/ conn[c].roomId = NoRoom
  THEN "PARTICIPANT_NOT_IN_ROOM"
  ELSE IF conn[c].participantId \notin DOMAIN participants
  THEN "PARTICIPANT_NOT_FOUND"
  ELSE ""

\* handleUnpublish
RecvUnpublish(c, roomId, producerId) ==
  /\ CanReceive(c)
  /\ roomId \in KnownRoomIds
  /\ producerId \in DOMAIN handles
  /\ LET error == IndexChecks(c)
         pid == conn[c].participantId
     IN IF error # ""
        THEN MediaRefused(c, "unpublish", roomId, error)
        ELSE IF producerId \notin participants[pid].producers
        THEN MediaRefused(c, "unpublish", roomId, "PRODUCER_NOT_FOUND")
        ELSE /\ handles' = CloseAll(handles, {producerId})
             /\ participants' = [participants EXCEPT
                                   ![pid].producers = @ \ {producerId},
                                   ![pid].pausedProducers = @ \ {producerId}]
             /\ out' = sendMessage(
                         broadcastToRoom(EmptyBag, roomConnections, roomId,
                           MediaMsg("producerClosed", roomId, pid, producerId), c),
                         c, MediaMsg("unpublishResponse", NoRoom, NoPid, NoHandle))
             /\ last' = Event("unpublish", c, "ok", pid, roomId)
             /\ tasks' = tasks
  /\ UNCHANGED <<rooms, connections, conn, ws, roomConnections,
                 userConnectionAttempts, now,
                 nextConn, nextPid, nextReq, nextUuid, nextHandle>>
  /\ delivered' = Deliver(delivered, out')

\* handleSubscribe up to RoomService.createConsumer's await of
\* mediasoupService.createConsumer; the router can consume a producer that
\* is open
RecvSubscribe(c, roomId, producerId) ==
  /\ CanReceive(c)
  /\ roomId \in KnownRoomIds
  /\ producerId \in DOMAIN handles
  /\ nextHandle + CreatingHandles <= MaxHandles
  /\ LET error == MediaChecks(c, roomId)
         pid == conn[c].participantId
     IN IF error # ""
        THEN MediaRefused(c, "subscribe", roomId, error)
        ELSE IF ~HoldsTransport(participants[pid], "recv")
        THEN MediaRefused(c, "subscribe", roomId, TransportNotFound("recv").message)
        ELSE IF ~(handles[producerId].kind = "producer" /\ Live(handles, producerId))
        THEN MediaRefused(c, "subscribe", roomId, "Cannot consume producer")
        ELSE /\ tasks' = tasks (+) SetToBag({MediaTask(c, "subscribe",
                            "createConsumer", roomId, pid, "recv",
                            participants[pid].recvTransport, producerId)})
             /\ out' = EmptyBag
             /\ last' = Event("recv", c, "subscribe", pid, roomId)
             /\ UNCHANGED <<participants, handles>>
  /\ UNCHANGED <<rooms, connections, conn, ws, roomConnections,
                 userConnectionAttempts, now,
                 nextConn, nextPid, nextReq, nextUuid, nextHandle>>
  /\ delivered' = Deliver(delivered, out')

\* the data of a subscribeResponse: the consumer's id, the producer it reads
\* and the literal paused: false
subscribeResponse(consumerId, producerId) ==
  [MediaMsg("subscribeResponse", NoRoom, NoPid, consumerId) EXCEPT
     !.producerId = producerId, !.paused = FALSE]

\* RoomService.createConsumer after the engine call settled (the engine
\* refuses a closed transport or producer; the consumer starts paused and
\* its record copies that), then handleSubscribe up to the await of the
\* resume: the participant is looked up again under the connection's
\* current participantId, and without it or without the consumer in its
\* map the resume is skipped and handleMessage replies at once
ConsumerCreated(t, ok) ==
  /\ t \in BagToSet(tasks) /\ t.pc = "createConsumer"
  /\ ok => Live(handles, t.handle) /\ Live(handles, t.producerId)
  /\ IF ok
     THEN /\ handles' = Put(handles, nextHandle, NewHandle("consumer", t.handle))
          /\ nextHandle' = nextHandle + 1
          /\ participants' =
               IF t.pid \notin DOMAIN participants THEN participants
               ELSE [participants EXCEPT ![t.pid].consumers = @ \cup
                       {[id |-> nextHandle, producerId |-> t.producerId,
                         paused |-> TRUE]}]
          /\ LET pid == conn[t.conn].participantId
             IN IF /\ pid \in DOMAIN participants'
                   /\ nextHandle \in {x.id : x \in participants'[pid].consumers}
                THEN /\ tasks' = (tasks (-) SetToBag({t})) (+)
                          SetToBag({[t EXCEPT !.pc = "resumeConsumer",
                                              !.handle = nextHandle]})
                     /\ out' = EmptyBag
                     /\ last' = Event("subscribe", t.conn, "created",
                                      t.pid, t.roomId)
                ELSE /\ tasks' = tasks (-) SetToBag({t})
                     /\ out' = sendMessage(EmptyBag, t.conn,
                                 subscribeResponse(nextHandle, t.producerId))
                     /\ last' = Event("subscribe", t.conn, "ok",
                                      t.pid, t.roomId)
     ELSE /\ tasks' = tasks (-) SetToBag({t}) /\ out' = sendError(EmptyBag, t.conn, "Failed to create consumer")
          /\ last' = Event("subscribe", t.conn, "Failed to create consumer",
                           t.pid, t.roomId)
          /\ UNCHANGED <<participants, handles, nextHandle>>
  /\ UNCHANGED <<rooms, connections, conn, ws, roomConnections,
                 userConnectionAttempts, now,
                 nextConn, nextPid, nextReq, nextUuid>>
  /\ delivered' = Deliver(delivered, out')

\* handleUnsubscribe
RecvUnsubscribe(c, roomId, consumerId) ==
  /\ CanReceive(c)
  /\ roomId \in KnownRoomIds
  /\ consumerId \in DOMAIN handles
  /\ LET error == IndexChecks(c)
         pid == conn[c].participantId
     IN IF error # ""
        THEN MediaRefused(c, "unsubscribe", roomId, error)
        ELSE IF consumerId \notin {x.id : x \in participants[pid].consumers}
        THEN MediaRefused(c, "unsubscribe", roomId, "CONSUMER_NOT_FOUND")
        ELSE /\ handles' = CloseAll(handles, {consumerId})
             /\ participants' = [participants EXCEPT ![pid].consumers =
                                   {x \in @ : x.id # consumerId}]
             /\ out' = sendMessage(EmptyBag, c,
                         MediaMsg("unsubscribeResponse", NoRoom, NoPid, NoHandle))
             /\ last' = Event("unsubscribe", c, "ok", pid, roomId)
             /\ tasks' = tasks
  /\ UNCHANGED <<rooms, connections, conn, ws, roomConnections,
                 userConnectionAttempts, now,
                 nextConn, nextPid, nextReq, nextUuid, nextHandle>>
  /\ delivered' = Deliver(delivered, out')

\* -------------------------------------------------------------- dispatch
\* the message types handleMessage's switch knows
MessageTypes ==
  {"createRoom", "joinRoom", "leaveRoom", "getRouterRtpCapabilities",
   "createWebRtcTransport", "connectWebRtcTransport", "restartIce", "ping",
   "publish", "unpublish", "subscribe", "unsubscribe", "resume", "pause",
   "pauseProducer", "resumeProducer", "setPreferredLayers"}

\* `${message.type}Response`
ResponseType(type) ==
  CASE type = "createRoom" -> "createRoomResponse"
    [] type = "joinRoom" -> "joinRoomResponse"
    [] type = "leaveRoom" -> "leaveRoomResponse"
    [] type = "getRouterRtpCapabilities" -> "getRouterRtpCapabilitiesResponse"
    [] type = "createWebRtcTransport" -> "createWebRtcTransportResponse"
    [] type = "connectWebRtcTransport" -> "connectWebRtcTransportResponse"
    [] type = "restartIce" -> "restartIceResponse"
    [] type = "ping" -> "pingResponse"
    [] type = "publish" -> "publishResponse"
    [] type = "unpublish" -> "unpublishResponse"
    [] type = "subscribe" -> "subscribeResponse"
    [] type = "unsubscribe" -> "unsubscribeResponse"
    [] type = "resume" -> "resumeResponse"
    [] type = "pause" -> "pauseResponse"
    [] type = "pauseProducer" -> "pauseProducerResponse"
    [] type = "resumeProducer" -> "resumeProducerResponse"
    [] type = "setPreferredLayers" -> "setPreferredLayersResponse"
    [] OTHER -> "Response"

\* handleMessage's reply after the handler returned
sendResponse(o, c, type, requestId) ==
  sendMessage(o, c, withRequestId(Msg(ResponseType(type), NoRoom, NoPid, {}, ""),
                                  requestId))

\* the message of the error a media-engine call rejects with
EngineError == "InvalidStateError"

\* a frame answered at once: nothing but the reply
Answered ==
  /\ UNCHANGED <<rooms, participants, connections, conn, ws, roomConnections,
                 userConnectionAttempts, now, tasks, handles,
                 nextConn, nextPid, nextReq, nextUuid, nextHandle>>
  /\ delivered' = Deliver(delivered, out')

\* the catch of the socket's message handler with its reply left out
parseFailure_Silent(o, c) == o

\* the catch of the socket's message handler: sendError is called with
\* 'Invalid message format' in the place of its requestId argument
parseFailure(o, c) ==
  sendErrorWith(o, c, "INVALID_MESSAGE", "Invalid message format")

\* a frame that JSON.parse rejects
RecvMalformed(c) ==
  /\ CanReceive(c)
  /\ out' = parseFailure(EmptyBag, c)
  /\ last' = Event("message", c, "INVALID_MESSAGE", NoPid, NoRoom)
  /\ Answered

\* message types whose handler starts with validateRequest
ValidatedTypes == MessageTypes \ {"ping"}

\* validateRequest on data whose first schema member (name for createRoom,
\* roomId for the others) is the empty string: the SFUError that
\* createValidationError builds from the first zod issue
validateRequest(type) ==
  IF type = "createRoom"
  THEN [code |-> "VALIDATION_ERROR", message |-> "Room name is required",
        field |-> "name"]
  ELSE [code |-> "VALIDATION_ERROR", message |-> "ID cannot be empty",
        field |-> "roomId"]

\* an envelope whose data the handler's schema rejects: validateRequest
\* throws in the handler's first statement and handleMessage's catch sends
\* error.message
RecvInvalid(c, type, requestId) ==
  /\ CanReceive(c)
  /\ type \in ValidatedTypes
  /\ out' = sendErrorWith(EmptyBag, c, validateRequest(type).message, requestId)
  /\ last' = [EventReq(type, c, validateRequest(type).code, NoPid, NoRoom,
                       requestId) EXCEPT !.at = "validateRequest"]
  /\ Answered

\* handleMessage, case 'ping'
RecvPing(c, requestId) ==
  /\ CanReceive(c)
  /\ out' = sendResponse(EmptyBag, c, "ping", requestId)
  /\ last' = EventReq("ping", c, "ok", NoPid, NoRoom, requestId)
  /\ Answered

\* the template literal `Unknown message type: ${message.type}` for the
\* type 'invalidMessageType'
UnknownMessageType == "Unknown message type: invalidMessageType"

\* handleMessage, default case: a type the switch does not know; the catch
\* sends the message of the error thrown by
\* createSystemError(ERROR_CODES.INVALID_REQUEST, `Unknown message type: ...`)
RecvUnknown(c, requestId) ==
  /\ CanReceive(c)
  /\ LET error == createSystemError("INVALID_REQUEST", UnknownMessageType)
     IN /\ out' = sendErrorWith(EmptyBag, c, error.message, requestId)
        /\ last' = EventReq("unknown", c, error.message, NoPid, NoRoom,
                            requestId)
  /\ Answered

\* a request refused before any await, on an envelope with requestId
Refused(c, op, roomId, error, requestId) ==
  /\ out' = sendErrorWith(EmptyBag, c, error, requestId)
  /\ last' = EventReq(op, c, error, conn[c].participantId, roomId, requestId)
  /\ UNCHANGED <<participants, handles, tasks, nextReq>>

\* handleGetRouterRtpCapabilities and RoomService.getRouterRtpCapabilities
\* (every room of the model has its router)
RecvGetRouterRtpCapabilities(c, roomId, requestId) ==
  /\ CanReceive(c)
  /\ roomId \in KnownRoomIds
  /\ IF conn[c].roomId = NoRoom
     THEN Refused(c, "getRouterRtpCapabilities", roomId,
                  "PARTICIPANT_NOT_IN_ROOM", requestId)
     ELSE IF roomId \notin DOMAIN rooms
     THEN Refused(c, "getRouterRtpCapabilities", roomId, "Room not found",
                  requestId)
     ELSE /\ out' = sendResponse(EmptyBag, c, "getRouterRtpCapabilities", requestId)
          /\ last' = EventReq("getRouterRtpCapabilities", c, "ok",
                              conn[c].participantId, roomId, requestId)
          /\ UNCHANGED <<participants, handles, tasks, nextReq>>
  /\ UNCHANGED <<rooms, connections, conn, ws, roomConnections,
                 userConnectionAttempts, now,
                 nextConn, nextPid, nextUuid, nextHandle>>
  /\ delivered' = Deliver(delivered, out')

\* a handler suspended on a call on an engine object h it looked up
EngineTask(c, type, pc, roomId, h, requestId) ==
  [MediaTask(c, type, pc, roomId, conn[c].participantId, "", h, NoHandle)
     EXCEPT !.requestId = requestId]

\* a handler that suspends on the engine call
Suspend(t) ==
  /\ nextReq' = nextReq + 1
  /\ tasks' = tasks (+) SetToBag({t})
  /\ out' = EmptyBag
  /\ last' = EventReq("recv", t.conn, t.type, t.pid, t.roomId, t.requestId)
  /\ UNCHANGED <<participants, handles>>

TransportOps == {"connectWebRtcTransport", "restartIce"}

\* handleConnectWebRtcTransport and handleRestartIce up to the await of
\* transport.connect / transport.restartIce
RecvTransportOp(c, op, roomId, transportId, requestId) ==
  /\ CanReceive(c)
  /\ op \in TransportOps
  /\ roomId \in KnownRoomIds
  /\ nextReq <= MaxRequests
  /\ LET error == IndexChecks(c)
         pid == conn[c].participantId
     IN IF error # ""
        THEN Refused(c, op, roomId, error, requestId)
        ELSE IF transportId \notin ({participants[pid].sendTransport,
                                     participants[pid].recvTransport} \ {NoHandle})
        THEN Refused(c, op, roomId, "TRANSPORT_NOT_FOUND", requestId)
        ELSE Suspend(EngineTask(c, op, "transport", roomId, transportId, requestId))
  /\ UNCHANGED <<rooms, connections, conn, ws, roomConnections,
                 userConnectionAttempts, now,
                 nextConn, nextPid, nextUuid, nextHandle>>
  /\ delivered' = Deliver(delivered, out')

\* the handler after transport.connect / transport.restartIce settled (the
\* engine refuses a closed transport), and handleMessage's reply
TransportOpDone(t, ok) ==
  /\ t \in BagToSet(tasks) /\ t.pc = "transport"
  /\ ok => Live(handles, t.handle)
  /\ tasks' = tasks (-) SetToBag({t})
  /\ out' = IF ok THEN sendResponse(EmptyBag, t.conn, t.type, t.requestId)
            ELSE sendErrorWith(EmptyBag, t.conn, EngineError, t.requestId)
  /\ last' = EventReq(t.type, t.conn, IF ok THEN "ok" ELSE EngineError,
                      t.pid, t.roomId, t.requestId)
  /\ UNCHANGED <<rooms, participants, connections, conn, ws, roomConnections,
                 userConnectionAttempts, now, handles,
                 nextConn, nextPid, nextReq, nextUuid, nextHandle>>
  /\ delivered' = Deliver(delivered, out')

ConsumerOps == {"pause", "resume", "setPreferredLayers"}

\* handlePause, handleResume and handleSetPreferredLayers up to the await of
\* the call on the consumer
RecvConsumerOp(c, op, roomId, consumerId, requestId) ==
  /\ CanReceive(c)
  /\ op \in ConsumerOps
  /\ roomId \in KnownRoomIds
  /\ nextReq <= MaxRequests
  /\ LET error == IndexChecks(c)
         pid == conn[c].participantId
     IN IF error # ""
        THEN Refused(c, op, roomId, error, requestId)
        ELSE IF consumerId \notin {x.id : x \in participants[pid].consumers}
        THEN Refused(c, op, roomId, "CONSUMER_NOT_FOUND", requestId)
        ELSE Suspend(EngineTask(c, op, "consumer", roomId, consumerId, requestId))
  /\ UNCHANGED <<rooms, connections, conn, ws, roomConnections,
                 userConnectionAttempts, now,
                 nextConn, nextPid, nextUuid, nextHandle>>
  /\ delivered' = Deliver(delivered, out')

\* the handler after the consumer call settled (the engine refuses a closed
\* consumer): pause and resume write the paused member of the ConsumerInfo
\* they looked up, then handleMessage replies
ConsumerOpDone(t, ok) ==
  /\ t \in BagToSet(tasks) /\ t.pc = "consumer"
  /\ ok => Live(handles, t.handle)
  /\ tasks' = tasks (-) SetToBag({t})
  /\ handles' =
       IF ok /\ t.type \in {"pause", "resume"}
       THEN [handles EXCEPT ![t.handle].paused = (t.type = "pause")]
       ELSE handles
  /\ participants' =
       IF ok /\ t.type \in {"pause", "resume"} /\ t.pid \in DOMAIN participants
       THEN [participants EXCEPT ![t.pid].consumers =
               {IF x.id = t.handle THEN [x EXCEPT !.paused = (t.type = "pause")]
                ELSE x : x \in @}]
       ELSE participants
  /\ out' = IF ok THEN sendResponse(EmptyBag, t.conn, t.type, t.requestId)
            ELSE sendErrorWith(EmptyBag, t.conn, EngineError, t.requestId)
  /\ last' = EventReq(t.type, t.conn, IF ok THEN "ok" ELSE EngineError,
                      t.pid, t.roomId, t.requestId)
  /\ UNCHANGED <<rooms, connections, conn, ws, roomConnections,
                 userConnectionAttempts, now,
                 nextConn, nextPid, nextReq, nextUuid, nextHandle>>
  /\ delivered' = Deliver(delivered, out')

\* handleSubscribe after the resume of the engine's consumer settled (the
\* engine refuses a closed consumer), then handleMessage's reply
ConsumerResumed(t, ok) ==
  /\ t \in BagToSet(tasks) /\ t.pc = "resumeConsumer"
  /\ ok => Live(handles, t.handle)
  /\ tasks' = tasks (-) SetToBag({t})
  /\ handles' = IF ok THEN [handles EXCEPT ![t.handle].paused = FALSE]
                ELSE handles
  /\ out' = IF ok
            THEN sendMessage(EmptyBag, t.conn,
                             subscribeResponse(t.handle, t.producerId))
            ELSE sendError(EmptyBag, t.conn, EngineError)
  /\ last' = Event("subscribe", t.conn, IF ok THEN "ok" ELSE EngineError,
                   t.pid, t.roomId)
  /\ UNCHANGED <<rooms, participants, connections, conn, ws, roomConnections,
                 userConnectionAttempts, now,
                 nextConn, nextPid, nextReq, nextUuid, nextHandle>>
  /\ delivered' = Deliver(delivered, out')

ProducerOps == {"pauseProducer", "resumeProducer"}

\* handlePauseProducer and handleResumeProducer up to the await of
\* producer.pause / producer.resume
RecvProducerOp(c, op, roomId, producerId, requestId) ==
  /\ CanReceive(c)
  /\ op \in ProducerOps
  /\ roomId \in KnownRoomIds
  /\ nextReq <= MaxRequests
  /\ LET error == IndexChecks(c)
         pid == conn[c].participantId
     IN IF error # ""
        THEN Refused(c, op, roomId, error, requestId)
        ELSE IF producerId \notin participants[pid].producers
        THEN Refused(c, op, roomId, "PRODUCER_NOT_FOUND", requestId)
        ELSE Suspend(EngineTask(c, op, "producer", roomId, producerId, requestId))
  /\ UNCHANGED <<rooms, connections, conn, ws, roomConnections,
                 userConnectionAttempts, now,
                 nextConn, nextPid, nextUuid, nextHandle>>
  /\ delivered' = Deliver(delivered, out')

\* the handler after the producer call settled (the engine refuses a closed
\* producer): the paused member of the ProducerInfo it looked up is written,
\* producerPaused / producerResumed is broadcast into data.roomId with the
\* connection's participant id as it is now, and handleMessage replies
ProducerOpDone(t, ok) ==
  /\ t \in BagToSet(tasks) /\ t.pc = "producer"
  /\ ok => Live(handles, t.handle)
  /\ tasks' = tasks (-) SetToBag({t})
  /\ participants' =
       IF ok /\ t.pid \in DOMAIN participants
             /\ t.handle \in participants[t.pid].producers
       THEN [participants EXCEPT ![t.pid].pausedProducers =
               IF t.type = "pauseProducer" THEN @ \cup {t.handle}
               ELSE @ \ {t.handle}]
       ELSE participants
  /\ out' = IF ok
            THEN sendResponse(
                   broadcastToRoom(EmptyBag, roomConnections, t.roomId,
                     MediaMsg(IF t.type = "pauseProducer" THEN "producerPaused"
                              ELSE "producerResumed",
                              t.roomId, conn[t.conn].participantId, t.handle),
                     t.conn),
                   t.conn, t.type, t.requestId)
            ELSE sendErrorWith(EmptyBag, t.conn, EngineError, t.requestId)
  /\ last' = EventReq(t.type, t.conn, IF ok THEN "ok" ELSE EngineError,
                      t.pid, t.roomId, t.requestId)
  /\ UNCHANGED <<rooms, connections, conn, ws, roomConnections,
                 userConnectionAttempts, now, handles,
                 nextConn, nextPid, nextReq, nextUuid, nextHandle>>
  /\ delivered' = Deliver(delivered, out')

\* ------------------------------------------------------------------ Next
Next ==
  \/ \E u \in Users \cup {NoUser} : HandleConnection(u)
  \/ \E c \in DOMAIN conn : CloseEvent(c)
  \/ \E c \in DOMAIN conn : ErrorEvent(c)
  \/ \E c \in DOMAIN conn : Pong(c)
  \/ PingTimer
  \/ Idle
  \/ Tick
  \/ \E c \in DOMAIN conn, maxp \in MaxParticipantsChoices : RecvCreateRoom(c, maxp)
  \/ \E t \in BagToSet(tasks), ok \in BOOLEAN : CreateRoomCreated(t, ok)
  \/ \E t \in BagToSet(tasks), ok \in BOOLEAN : CreateRoomFinish(t, ok)
  \/ \E c \in DOMAIN conn, r \in KnownRoomIds, h \in BOOLEAN : RecvJoinRoom(c, r, h)
  \/ \E t \in BagToSet(tasks), ok \in BOOLEAN : JoinAccess(t, ok)
  \/ \E t \in BagToSet(tasks), ok \in BOOLEAN : JoinCreated(t, ok)
  \/ \E t \in BagToSet(tasks), ok \in BOOLEAN : JoinFinish(t, ok)
  \/ \E c \in DOMAIN conn, r \in KnownRoomIds : RecvLeaveRoom(c, r)
  \/ \E t \in BagToSet(tasks), ok \in BOOLEAN : LeaveFinish(t, ok)
  \/ \E c \in DOMAIN conn, r \in KnownRoomIds, d \in {"send", "recv"} :
       RecvCreateTransport(c, r, d)
  \/ \E t \in BagToSet(tasks), ok \in BOOLEAN : TransportCreated(t, ok)
  \/ \E c \in DOMAIN conn, r \in KnownRoomIds : RecvPublish(c, r)
  \/ \E t \in BagToSet(tasks), ok \in BOOLEAN : ProducerCreated(t, ok)
  \/ \E c \in DOMAIN conn, r \in KnownRoomIds, h \in DOMAIN handles :
       RecvUnpublish(c, r, h)
  \/ \E c \in DOMAIN conn, r \in KnownRoomIds, h \in DOMAIN handles :
       RecvSubscribe(c, r, h)
  \/ \E t \in BagToSet(tasks), ok \in BOOLEAN : ConsumerCreated(t, ok)
  \/ \E t \in BagToSet(tasks), ok \in BOOLEAN : ConsumerResumed(t, ok)
  \/ \E c \in DOMAIN conn, r \in KnownRoomIds, h \in DOMAIN handles :
       RecvUnsubscribe(c, r, h)
  \/ \E c \in DOMAIN conn : RecvMalformed(c)
  \/ \E c \in DOMAIN conn, x \in ValidatedTypes, q \in RequestIds :
       RecvInvalid(c, x, q)
  \/ \E c \in DOMAIN conn, q \in RequestIds : RecvPing(c, q)
  \/ \E c \in DOMAIN conn, q \in RequestIds : RecvUnknown(c, q)
  \/ \E c \in DOMAIN conn, r \in KnownRoomIds, q \in RequestIds :
       RecvGetRouterRtpCapabilities(c, r, q)
  \/ \E c \in DOMAIN conn, x \in TransportOps, r \in KnownRoomIds,
        h \in DOMAIN handles, q \in RequestIds : RecvTransportOp(c, x, r, h, q)
  \/ \E t \in BagToSet(tasks), ok \in BOOLEAN : TransportOpDone(t, ok)
  \/ \E c \in DOMAIN conn, x \in ConsumerOps, r \in KnownRoomIds,
        h \in DOMAIN handles, q \in RequestIds : RecvConsumerOp(c, x, r, h, q)
  \/ \E t \in BagToSet(tasks), ok \in BOOLEAN : ConsumerOpDone(t, ok)
  \/ \E c \in DOMAIN conn, x \in ProducerOps, r \in KnownRoomIds,
        h \in DOMAIN handles, q \in RequestIds : RecvProducerOp(c, x, r, h, q)
  \/ \E t \in BagToSet(tasks), ok \in BOOLEAN : ProducerOpDone(t, ok)

Spec == Init /\ [][Next]_vars


\* ------------------------------------------------- room-level behaviours
\* The state after users A and B have each been accepted on one connection
\* (two HandleConnection steps from Init); the room operations are explored
\* from it.
InitConnected ==
  /\ rooms = EmptyFn
  /\ participants = EmptyFn
  /\ connections = {1, 2}
  /\ conn = <<[user |-> "A", participantId |-> NoPid, roomId |-> NoRoom, lastPing |-> 0, lastAck |-> 0],
              [user |-> "B", participantId |-> NoPid, roomId |-> NoRoom, lastPing |-> 0, lastAck |-> 0]>>
  /\ ws = <<[readyState |-> "open", closeCode |-> 0, cleaned |-> FALSE,
             user |-> "A", at |-> 0],
            [readyState |-> "open", closeCode |-> 0, cleaned |-> FALSE,
             user |-> "B", at |-> 0]>>
  /\ roomConnections = EmptyFn
  /\ userConnectionAttempts = [u \in Users |-> 0]
  /\ now = 0
  /\ tasks = EmptyBag
  /\ out = SetToBag({Sent(2, Msg("connected", NoRoom, NoPid, {}, ""))})
  /\ delivered = {}
  /\ handles = EmptyFn
  /\ nextConn = 3 /\ nextPid = 1 /\ nextReq = 1 /\ nextUuid = 1 /\ nextHandle = 1
  /\ last = Event("connect", 2, "ok", NoPid, NoRoom)

\* joinRoom, leaveRoom and disconnects on the session room
NextJoin ==
  \/ \E c \in DOMAIN conn : CloseEvent(c)
  \/ \E c \in DOMAIN conn, r \in SessionIds, h \in BOOLEAN : RecvJoinRoom(c, r, h)
  \/ \E t \in BagToSet(tasks), ok \in BOOLEAN : JoinAccess(t, ok)
  \/ \E t \in BagToSet(tasks), ok \in BOOLEAN : JoinCreated(t, ok)
  \/ \E t \in BagToSet(tasks), ok \in BOOLEAN : JoinFinish(t, ok)
  \/ \E c \in DOMAIN conn, r \in SessionIds : RecvLeaveRoom(c, r)
  \/ \E t \in BagToSet(tasks), ok \in BOOLEAN : LeaveFinish(t, ok)

SpecJoin == InitConnected /\ [][NextJoin]_vars

\* createRoom with a capacity, then joinRoom, leaveRoom and disconnects on
\* the rooms created
NextCap ==
  \/ \E c \in DOMAIN conn : CloseEvent(c)
  \/ \E c \in DOMAIN conn, maxp \in MaxParticipantsChoices : RecvCreateRoom(c, maxp)
  \/ \E t \in BagToSet(tasks), ok \in BOOLEAN : CreateRoomCreated(t, ok)
  \/ \E t \in BagToSet(tasks), ok \in BOOLEAN : CreateRoomFinish(t, ok)
  \/ \E c \in DOMAIN conn, r \in DOMAIN rooms : RecvJoinRoom(c, r, FALSE)
  \/ \E t \in BagToSet(tasks), ok \in BOOLEAN : JoinAccess(t, ok)
  \/ \E t \in BagToSet(tasks), ok \in BOOLEAN : JoinFinish(t, ok)
  \/ \E c \in DOMAIN conn, r \in DOMAIN rooms : RecvLeaveRoom(c, r)
  \/ \E t \in BagToSet(tasks), ok \in BOOLEAN : LeaveFinish(t, ok)

SpecCap == InitConnected /\ [][NextCap]_vars

\* The state after, from InitConnected, A's connection has joined the
\* session room "abc" at time 0 and has been answered.
InitInRoom ==
  /\ rooms = [r \in {"abc"} |->
                [NewRoom(DefaultMaxParticipants * Scale) EXCEPT !.participants = {1}]]
  /\ participants = <<NewParticipant("A", "abc", FALSE, 0)>>
  /\ connections = {1, 2}
  /\ conn = <<[user |-> "A", participantId |-> 1, roomId |-> "abc", lastPing |-> 0, lastAck |-> 0],
              [user |-> "B", participantId |-> NoPid, roomId |-> NoRoom, lastPing |-> 0, lastAck |-> 0]>>
  /\ ws = <<[readyState |-> "open", closeCode |-> 0, cleaned |-> FALSE,
             user |-> "A", at |-> 0],
            [readyState |-> "open", closeCode |-> 0, cleaned |-> FALSE,
             user |-> "B", at |-> 0]>>
  /\ roomConnections = [r \in {"abc"} |-> {1}]
  /\ userConnectionAttempts = [u \in Users |-> 0]
  /\ now = 0
  /\ tasks = EmptyBag
  /\ out = SetToBag({Sent(1, Msg("joinRoomResponse", "abc", NoPid,
                                 {getParticipantInfo(1, "A", FALSE)}, ""))})
  /\ delivered = {}
  /\ handles = EmptyFn
  /\ nextConn = 3 /\ nextPid = 2 /\ nextReq = 1 /\ nextUuid = 1 /\ nextHandle = 1
  /\ last = Event("reply", 1, "joinRoomResponse+announce", 1, "abc")

\* joinRoom on the session room while time passes
NextTime ==
  \/ Tick
  \/ \E c \in DOMAIN conn, r \in SessionIds : RecvJoinRoom(c, r, FALSE)
  \/ \E t \in BagToSet(tasks), ok \in BOOLEAN : JoinAccess(t, ok)
  \/ \E t \in BagToSet(tasks), ok \in BOOLEAN : JoinFinish(t, ok)

SpecTime == InitInRoom /\ [][NextTime]_vars

\* The state after, from InitConnected, A and B have joined the session
\* room "abc", B has created its send transport (1) and published a
\* producer (2), and A has created its send transport (3), published a
\* producer (4) and created its receive transport (5).
InitMedia ==
  /\ rooms = [r \in {"abc"} |->
                [NewRoom(DefaultMaxParticipants * Scale) EXCEPT !.participants = {1, 2}]]
  /\ participants = <<[NewParticipant("A", "abc", FALSE, 0) EXCEPT
                         !.sendTransport = 3, !.producers = {4},
                         !.recvTransport = 5],
                      [NewParticipant("B", "abc", FALSE, 0) EXCEPT
                         !.sendTransport = 1, !.producers = {2}]>>
  /\ connections = {1, 2}
  /\ conn = <<[user |-> "A", participantId |-> 1, roomId |-> "abc", lastPing |-> 0, lastAck |-> 0],
              [user |-> "B", participantId |-> 2, roomId |-> "abc", lastPing |-> 0, lastAck |-> 0]>>
  /\ ws = <<[readyState |-> "open", closeCode |-> 0, cleaned |-> FALSE,
             user |-> "A", at |-> 0],
            [readyState |-> "open", closeCode |-> 0, cleaned |-> FALSE,
             user |-> "B", at |-> 0]>>
  /\ roomConnections = [r \in {"abc"} |-> {1, 2}]
  /\ userConnectionAttempts = [u \in Users |-> 0]
  /\ now = 0
  /\ tasks = EmptyBag
  /\ out = SetToBag({Sent(1, MediaMsg("createWebRtcTransportResponse", "abc",
                                       1, 5))})
  /\ delivered = {<<1, "participantJoined", 2>>, <<1, "producerCreated", 2>>,
                  <<2, "producerCreated", 1>>}
  /\ handles = <<NewHandle("transport", NoHandle), NewHandle("producer", 1),
                 NewHandle("transport", NoHandle), NewHandle("producer", 3),
                 NewHandle("transport", NoHandle)>>
  /\ nextConn = 3 /\ nextPid = 3 /\ nextReq = 1 /\ nextUuid = 1 /\ nextHandle = 6
  /\ last = Event("createWebRtcTransport", 1, "ok", 1, "abc")

\* producers and consumers held by the participant of connection c
ProducersOf(c) ==
  IF conn[c].participantId \in DOMAIN participants
  THEN participants[conn[c].participantId].producers ELSE {}

ConsumersOf(c) ==
  IF conn[c].participantId \in DOMAIN participants
  THEN {x.id : x \in participants[conn[c].participantId].consumers} ELSE {}

\* producers the clients have been told of and not seen closed
OpenProducers ==
  {h \in DOMAIN handles : handles[h].kind = "producer" /\ Live(handles, h)}

\* media requests, leaveRoom and disconnects of the members of the session
\* room; a client unpublishes a producer and unsubscribes a consumer it
\* holds, and subscribes to an open producer
NextMedia ==
  \/ \E c \in DOMAIN conn : CloseEvent(c)
  \/ \E c \in DOMAIN conn, r \in SessionIds : RecvLeaveRoom(c, r)
  \/ \E t \in BagToSet(tasks), ok \in BOOLEAN : LeaveFinish(t, ok)
  \/ \E c \in DOMAIN conn, r \in SessionIds, d \in {"send", "recv"} :
       RecvCreateTransport(c, r, d)
  \/ \E t \in BagToSet(tasks), ok \in BOOLEAN : TransportCreated(t, ok)
  \/ \E c \in DOMAIN conn, r \in SessionIds : RecvPublish(c, r)
  \/ \E t \in BagToSet(tasks), ok \in BOOLEAN : ProducerCreated(t, ok)
  \/ \E c \in DOMAIN conn, r \in SessionIds :
       \E h \in ProducersOf(c) : RecvUnpublish(c, r, h)
  \/ \E c \in DOMAIN conn, r \in SessionIds, h \in OpenProducers :
       RecvSubscribe(c, r, h)
  \/ \E t \in BagToSet(tasks), ok \in BOOLEAN : ConsumerCreated(t, ok)
  \/ \E t \in BagToSet(tasks), ok \in BOOLEAN : ConsumerResumed(t, ok)
  \/ \E c \in DOMAIN conn, r \in SessionIds :
       \E h \in ConsumersOf(c) : RecvUnsubscribe(c, r, h)

SpecMedia == InitMedia /\ [][NextMedia]_vars

\* the lifetime of the connections of two members of the session room
\* that send nothing: heartbeat sweeps, pongs, socket errors and closes
NextLife ==
  \/ \E c \in DOMAIN conn : CloseEvent(c)
  \/ \E c \in DOMAIN conn : ErrorEvent(c)
  \/ \E c \in DOMAIN conn : Pong(c)
  \/ PingTimer
  \/ Idle

SpecLife == InitMedia /\ [][NextLife]_vars

\* connection attempts of the users, and closes of their sockets, while
\* time passes
NextConn ==
  \/ \E u \in Users \cup {NoUser} : HandleConnection(u)
  \/ \E c \in DOMAIN conn : CloseEvent(c)
  \/ Tick

SpecConn == Init /\ [][NextConn]_vars

\* the dispatch of the envelopes of two members of the session room:
\* envelopes of an unknown type and requests answered at once or after one
\* media-engine call, with and without requestId, while sockets close
NextDispatch ==
  \/ \E c \in DOMAIN conn : CloseEvent(c)
  \/ \E c \in DOMAIN conn, q \in RequestIds : RecvPing(c, q)
  \/ \E c \in DOMAIN conn, q \in RequestIds : RecvUnknown(c, q)
  \/ \E c \in DOMAIN conn, r \in SessionIds, q \in RequestIds :
       RecvGetRouterRtpCapabilities(c, r, q)
  \/ \E c \in DOMAIN conn, x \in TransportOps, r \in SessionIds,
        h \in DOMAIN handles, q \in RequestIds : RecvTransportOp(c, x, r, h, q)
  \/ \E t \in BagToSet(tasks), ok \in BOOLEAN : TransportOpDone(t, ok)
  \/ \E c \in DOMAIN conn, x \in ProducerOps, r \in SessionIds,
        h \in DOMAIN handles, q \in RequestIds : RecvProducerOp(c, x, r, h, q)
  \/ \E t \in BagToSet(tasks), ok \in BOOLEAN : ProducerOpDone(t, ok)

SpecDispatch == InitMedia /\ [][NextDispatch]_vars

\* frames that do not parse and envelopes with data the schema rejects,
\* with and without requestId, on connections inside and outside the
\* session room, while members leave and sockets close
NextFrames ==
  \/ \E c \in DOMAIN conn : CloseEvent(c)
  \/ \E c \in DOMAIN conn, r \in SessionIds : RecvLeaveRoom(c, r)
  \/ \E t \in BagToSet(tasks), ok \in BOOLEAN : LeaveFinish(t, ok)
  \/ \E c \in DOMAIN conn : RecvMalformed(c)
  \/ \E c \in DOMAIN conn, x \in ValidatedTypes, q \in RequestIds :
       RecvInvalid(c, x, q)

SpecFrames == InitMedia /\ [][NextFrames]_vars

\* the connection whose requests are followed: that of member A; member B
\* stays in the room and is there to receive what is broadcast
Requesters == {1}

\* every request that needs the connection to be in a room, sent by A as a
\* member of the session room and, after its leaveRoom, as a connection
\* that is in no room; the handle named is one the engine has created
NextInRoom ==
  \/ \E c \in Requesters, r \in SessionIds : RecvLeaveRoom(c, r)
  \/ \E t \in BagToSet(tasks), ok \in BOOLEAN : LeaveFinish(t, ok)
  \/ \E c \in Requesters, r \in SessionIds :
       RecvGetRouterRtpCapabilities(c, r, NoRequestId)
  \/ \E c \in Requesters, r \in SessionIds, d \in {"send", "recv"} :
       RecvCreateTransport(c, r, d)
  \/ \E t \in BagToSet(tasks), ok \in BOOLEAN : TransportCreated(t, ok)
  \/ \E c \in Requesters, x \in TransportOps, r \in SessionIds,
        h \in DOMAIN handles : RecvTransportOp(c, x, r, h, NoRequestId)
  \/ \E t \in BagToSet(tasks), ok \in BOOLEAN : TransportOpDone(t, ok)
  \/ \E c \in Requesters, r \in SessionIds : RecvPublish(c, r)
  \/ \E t \in BagToSet(tasks), ok \in BOOLEAN : ProducerCreated(t, ok)
  \/ \E c \in Requesters, r \in SessionIds, h \in DOMAIN handles :
       RecvUnpublish(c, r, h)
  \/ \E c \in Requesters, r \in SessionIds, h \in OpenProducers :
       RecvSubscribe(c, r, h)
  \/ \E t \in BagToSet(tasks), ok \in BOOLEAN : ConsumerCreated(t, ok)
  \/ \E t \in BagToSet(tasks), ok \in BOOLEAN : ConsumerResumed(t, ok)
  \/ \E c \in Requesters, r \in SessionIds, h \in DOMAIN handles :
       RecvUnsubscribe(c, r, h)
  \/ \E c \in Requesters, x \in ConsumerOps, r \in SessionIds,
        h \in DOMAIN handles : RecvConsumerOp(c, x, r, h, NoRequestId)
  \/ \E t \in BagToSet(tasks), ok \in BOOLEAN : ConsumerOpDone(t, ok)
  \/ \E c \in Requesters, x \in ProducerOps, r \in SessionIds,
        h \in DOMAIN handles : RecvProducerOp(c, x, r, h, NoRequestId)
  \/ \E t \in BagToSet(tasks), ok \in BOOLEAN : ProducerOpDone(t, ok)

SpecInRoom == InitMedia /\ [][NextInRoom]_vars

\* every request and socket event that broadcasts a room event: joinRoom
\* (again, and after leaveRoom), leaveRoom, publish, unpublish and
\* pauseProducer / resumeProducer of a producer it holds, sent by member A
\* of the session room, and socket closes of both members
\* member A holds a receive transport and member B publishes one producer:
\* the state after both joined, B created a send transport and published,
\* and A created a receive transport
InitSubscriber ==
  /\ rooms = [r \in {"abc"} |->
                [NewRoom(DefaultMaxParticipants * Scale) EXCEPT !.participants = {1, 2}]]
  /\ participants = <<[NewParticipant("A", "abc", FALSE, 0) EXCEPT
                         !.recvTransport = 3],
                      [NewParticipant("B", "abc", FALSE, 0) EXCEPT
                         !.sendTransport = 1, !.producers = {2}]>>
  /\ connections = {1, 2}
  /\ conn = <<[user |-> "A", participantId |-> 1, roomId |-> "abc", lastPing |-> 0, lastAck |-> 0],
              [user |-> "B", participantId |-> 2, roomId |-> "abc", lastPing |-> 0, lastAck |-> 0]>>
  /\ ws = <<[readyState |-> "open", closeCode |-> 0, cleaned |-> FALSE,
             user |-> "A", at |-> 0],
            [readyState |-> "open", closeCode |-> 0, cleaned |-> FALSE,
             user |-> "B", at |-> 0]>>
  /\ roomConnections = [r \in {"abc"} |-> {1, 2}]
  /\ userConnectionAttempts = [u \in Users |-> 0]
  /\ now = 0
  /\ tasks = EmptyBag
  /\ out = SetToBag({Sent(1, MediaMsg("createWebRtcTransportResponse", "abc",
                                       1, 3))})
  /\ delivered = {<<1, "participantJoined", 2>>, <<1, "producerCreated", 2>>}
  /\ handles = <<NewHandle("transport", NoHandle), NewHandle("producer", 1),
                 NewHandle("transport", NoHandle)>>
  /\ nextConn = 3 /\ nextPid = 3 /\ nextReq = 1 /\ nextUuid = 1 /\ nextHandle = 4
  /\ last = Event("createWebRtcTransport", 1, "ok", 1, "abc")

\* the subscriber's requests (subscribe, a second receive transport,
\* leaveRoom) against the publisher's unpublish and both sockets' closes
NextSubscriber ==
  \/ \E c \in DOMAIN conn : CloseEvent(c)
  \/ \E c \in Requesters, r \in SessionIds : RecvLeaveRoom(c, r)
  \/ \E t \in BagToSet(tasks), ok \in BOOLEAN : LeaveFinish(t, ok)
  \/ \E c \in Requesters, r \in SessionIds : RecvCreateTransport(c, r, "recv")
  \/ \E t \in BagToSet(tasks), ok \in BOOLEAN : TransportCreated(t, ok)
  \/ \E c \in Requesters, r \in SessionIds, h \in OpenProducers :
       RecvSubscribe(c, r, h)
  \/ \E t \in BagToSet(tasks), ok \in BOOLEAN : ConsumerCreated(t, ok)
  \/ \E t \in BagToSet(tasks), ok \in BOOLEAN : ConsumerResumed(t, ok)
  \/ \E c \in DOMAIN conn \ Requesters, r \in SessionIds :
       \E h \in ProducersOf(c) : RecvUnpublish(c, r, h)

SpecSubscriber == InitSubscriber /\ [][NextSubscriber]_vars

\* the state of InitMedia in a service where a member had also created a
\* room with createRoom before the session: two rooms are known, the
\* created one has no participant
InitTwoRooms ==
  /\ rooms = [r \in {"abc", Uuids[1]} |->
                IF r = "abc"
                THEN [NewRoom(DefaultMaxParticipants * Scale) EXCEPT
                        !.participants = {1, 2}]
                ELSE NewRoom(DefaultMaxParticipants * Scale)]
  /\ participants = <<[NewParticipant("A", "abc", FALSE, 0) EXCEPT
                         !.sendTransport = 3, !.producers = {4},
                         !.recvTransport = 5],
                      [NewParticipant("B", "abc", FALSE, 0) EXCEPT
                         !.sendTransport = 1, !.producers = {2}]>>
  /\ connections = {1, 2}
  /\ conn = <<[user |-> "A", participantId |-> 1, roomId |-> "abc", lastPing |-> 0, lastAck |-> 0],
              [user |-> "B", participantId |-> 2, roomId |-> "abc", lastPing |-> 0, lastAck |-> 0]>>
  /\ ws = <<[readyState |-> "open", closeCode |-> 0, cleaned |-> FALSE,
             user |-> "A", at |-> 0],
            [readyState |-> "open", closeCode |-> 0, cleaned |-> FALSE,
             user |-> "B", at |-> 0]>>
  /\ roomConnections = [r \in {"abc"} |-> {1, 2}]
  /\ userConnectionAttempts = [u \in Users |-> 0]
  /\ now = 0
  /\ tasks = EmptyBag
  /\ out = SetToBag({Sent(1, MediaMsg("createWebRtcTransportResponse", "abc",
                                       1, 5))})
  /\ delivered = {<<1, "participantJoined", 2>>, <<1, "producerCreated", 2>>,
                  <<2, "producerCreated", 1>>}
  /\ handles = <<NewHandle("transport", NoHandle), NewHandle("producer", 1),
                 NewHandle("transport", NoHandle), NewHandle("producer", 3),
                 NewHandle("transport", NoHandle)>>
  /\ nextConn = 3 /\ nextPid = 3 /\ nextReq = 1 /\ nextUuid = 2 /\ nextHandle = 6
  /\ last = Event("createWebRtcTransport", 1, "ok", 1, "abc")

\* member A subscribes, unsubscribes and leaves; member B unpublishes; both
\* sockets close; every request names any room id the service knows
NextSubscription ==
  \/ \E c \in DOMAIN conn : CloseEvent(c)
  \/ \E c \in Requesters, r \in KnownRoomIds : RecvLeaveRoom(c, r)
  \/ \E t \in BagToSet(tasks), ok \in BOOLEAN : LeaveFinish(t, ok)
  \/ \E c \in Requesters, r \in KnownRoomIds, h \in OpenProducers :
       RecvSubscribe(c, r, h)
  \/ \E t \in BagToSet(tasks), ok \in BOOLEAN : ConsumerCreated(t, ok)
  \/ \E t \in BagToSet(tasks), ok \in BOOLEAN : ConsumerResumed(t, ok)
  \/ \E c \in Requesters, r \in KnownRoomIds :
       \E h \in ConsumersOf(c) : RecvUnsubscribe(c, r, h)
  \/ \E c \in DOMAIN conn \ Requesters, r \in KnownRoomIds :
       \E h \in ProducersOf(c) : RecvUnpublish(c, r, h)

SpecSubscription == InitTwoRooms /\ [][NextSubscription]_vars

\* publish and subscribe by members with and without the transport they
\* need (A holds a receive transport only, B a send transport only), the
\* creation of the missing transports and both sockets' closes
NextTransports ==
  \/ \E c \in DOMAIN conn : CloseEvent(c)
  \/ \E c \in DOMAIN conn, r \in SessionIds, d \in {"send", "recv"} :
       RecvCreateTransport(c, r, d)
  \/ \E t \in BagToSet(tasks), ok \in BOOLEAN : TransportCreated(t, ok)
  \/ \E c \in DOMAIN conn, r \in SessionIds : RecvPublish(c, r)
  \/ \E t \in BagToSet(tasks), ok \in BOOLEAN : ProducerCreated(t, ok)
  \/ \E c \in DOMAIN conn, r \in SessionIds, h \in OpenProducers :
       RecvSubscribe(c, r, h)
  \/ \E t \in BagToSet(tasks), ok \in BOOLEAN : ConsumerCreated(t, ok)
  \/ \E t \in BagToSet(tasks), ok \in BOOLEAN : ConsumerResumed(t, ok)

SpecTransports == InitSubscriber /\ [][NextTransports]_vars

\* the state after A and B joined the session room and A connected again:
\* handleConnection closed A's first socket and took it out of the registry,
\* its close event is still to come, so its id is still in the room's
\* connection set and its record still names A's participant
InitReplaced ==
  /\ rooms = [r \in {"abc"} |->
                [NewRoom(DefaultMaxParticipants * Scale) EXCEPT !.participants = {1, 2}]]
  /\ participants = <<NewParticipant("A", "abc", FALSE, 0),
                      NewParticipant("B", "abc", FALSE, 0)>>
  /\ connections = {2, 3}
  /\ conn = <<[user |-> "A", participantId |-> 1, roomId |-> "abc", lastPing |-> 0, lastAck |-> 0],
              [user |-> "B", participantId |-> 2, roomId |-> "abc", lastPing |-> 0, lastAck |-> 0],
              [user |-> "A", participantId |-> NoPid, roomId |-> NoRoom,
               lastPing |-> MinConnectionInterval,
               lastAck |-> MinConnectionInterval]>>
  /\ ws = <<[readyState |-> "closing", closeCode |-> 1000, cleaned |-> FALSE,
             user |-> "A", at |-> 0],
            [readyState |-> "open", closeCode |-> 0, cleaned |-> FALSE,
             user |-> "B", at |-> 0],
            [readyState |-> "open", closeCode |-> 0, cleaned |-> FALSE,
             user |-> "A", at |-> MinConnectionInterval]>>
  /\ roomConnections = [r \in {"abc"} |-> {1, 2}]
  /\ userConnectionAttempts = [u \in Users |->
                                 IF u = "A" THEN MinConnectionInterval ELSE 0]
  /\ now = MinConnectionInterval
  /\ tasks = EmptyBag
  /\ out = SetToBag({Sent(3, Msg("connected", NoRoom, NoPid, {}, ""))})
  /\ delivered = {<<1, "participantJoined", 2>>}
  /\ handles = EmptyFn
  /\ nextConn = 4 /\ nextPid = 3 /\ nextReq = 1 /\ nextUuid = 1 /\ nextHandle = 1
  /\ last = Event("connect", 3, "ok", NoPid, NoRoom)

\* joinRoom and leaveRoom by the three connections against the close
\* events of their sockets
NextReplaced ==
  \/ \E c \in DOMAIN conn : CloseEvent(c)
  \/ \E c \in DOMAIN conn, r \in SessionIds, h \in BOOLEAN : RecvJoinRoom(c, r, h)
  \/ \E t \in BagToSet(tasks), ok \in BOOLEAN : JoinAccess(t, ok)
  \/ \E t \in BagToSet(tasks), ok \in BOOLEAN : JoinFinish(t, ok)
  \/ \E c \in DOMAIN conn, r \in SessionIds : RecvLeaveRoom(c, r)
  \/ \E t \in BagToSet(tasks), ok \in BOOLEAN : LeaveFinish(t, ok)

SpecReplaced == InitReplaced /\ [][NextReplaced]_vars

\* two rooms with one member each: B created a room with createRoom and
\* joined it, A joined the session room, created a send transport and
\* published
InitApart ==
  /\ rooms = [r \in {"abc", Uuids[1]} |->
                [NewRoom(DefaultMaxParticipants * Scale) EXCEPT
                   !.participants = IF r = "abc" THEN {1} ELSE {2}]]
  /\ participants = <<[NewParticipant("A", "abc", FALSE, 0) EXCEPT
                         !.sendTransport = 1, !.producers = {2}],
                      NewParticipant("B", Uuids[1], FALSE, 0)>>
  /\ connections = {1, 2}
  /\ conn = <<[user |-> "A", participantId |-> 1, roomId |-> "abc", lastPing |-> 0, lastAck |-> 0],
              [user |-> "B", participantId |-> 2, roomId |-> Uuids[1], lastPing |-> 0, lastAck |-> 0]>>
  /\ ws = <<[readyState |-> "open", closeCode |-> 0, cleaned |-> FALSE,
             user |-> "A", at |-> 0],
            [readyState |-> "open", closeCode |-> 0, cleaned |-> FALSE,
             user |-> "B", at |-> 0]>>
  /\ roomConnections = [r \in {"abc", Uuids[1]} |->
                          IF r = "abc" THEN {1} ELSE {2}]
  /\ userConnectionAttempts = [u \in Users |-> 0]
  /\ now = 0
  /\ tasks = EmptyBag
  /\ out = SetToBag({Sent(1, MediaMsg("publishResponse", "abc", NoPid, 2))})
  /\ delivered = {}
  /\ handles = <<NewHandle("transport", NoHandle), NewHandle("producer", 1)>>
  /\ nextConn = 3 /\ nextPid = 3 /\ nextReq = 1 /\ nextUuid = 2 /\ nextHandle = 3
  /\ last = Event("publish", 1, "ok", 1, "abc")

\* the requests of both members that broadcast, each naming any room id
\* the service knows, and both sockets' closes
NextApart ==
  \/ \E c \in DOMAIN conn : CloseEvent(c)
  \/ \E c \in DOMAIN conn, r \in KnownRoomIds : RecvLeaveRoom(c, r)
  \/ \E t \in BagToSet(tasks), ok \in BOOLEAN : LeaveFinish(t, ok)
  \/ \E c \in DOMAIN conn, r \in KnownRoomIds :
       \E h \in ProducersOf(c) : RecvUnpublish(c, r, h)
  \/ \E c \in DOMAIN conn, x \in ProducerOps, r \in KnownRoomIds :
       \E h \in ProducersOf(c) : RecvProducerOp(c, x, r, h, NoRequestId)
  \/ \E t \in BagToSet(tasks), ok \in BOOLEAN : ProducerOpDone(t, ok)

SpecApart == InitApart /\ [][NextApart]_vars

\* both members of the two rooms join and leave, each request naming any
\* room id the service knows, and both sockets close
NextRejoin ==
  \/ \E c \in DOMAIN conn : CloseEvent(c)
  \/ \E c \in DOMAIN conn, r \in KnownRoomIds, h \in BOOLEAN : RecvJoinRoom(c, r, h)
  \/ \E t \in BagToSet(tasks), ok \in BOOLEAN : JoinAccess(t, ok)
  \/ \E t \in BagToSet(tasks), ok \in BOOLEAN : JoinFinish(t, ok)
  \/ \E c \in DOMAIN conn, r \in KnownRoomIds : RecvLeaveRoom(c, r)
  \/ \E t \in BagToSet(tasks), ok \in BOOLEAN : LeaveFinish(t, ok)

SpecRejoin == InitApart /\ [][NextRejoin]_vars

NextEvents ==
  \/ \E c \in DOMAIN conn : CloseEvent(c)
  \/ \E c \in Requesters, r \in SessionIds : RecvJoinRoom(c, r, FALSE)
  \/ \E t \in BagToSet(tasks), ok \in BOOLEAN : JoinAccess(t, ok)
  \/ \E t \in BagToSet(tasks), ok \in BOOLEAN : JoinFinish(t, ok)
  \/ \E c \in Requesters, r \in SessionIds : RecvLeaveRoom(c, r)
  \/ \E t \in BagToSet(tasks), ok \in BOOLEAN : LeaveFinish(t, ok)
  \/ \E c \in Requesters, r \in SessionIds : RecvPublish(c, r)
  \/ \E t \in BagToSet(tasks), ok \in BOOLEAN : ProducerCreated(t, ok)
  \/ \E c \in Requesters, r \in SessionIds :
       \E h \in ProducersOf(c) : RecvUnpublish(c, r, h)
  \/ \E c \in Requesters, x \in ProducerOps, r \in SessionIds :
       \E h \in ProducersOf(c) : RecvProducerOp(c, x, r, h, NoRequestId)
  \/ \E t \in BagToSet(tasks), ok \in BOOLEAN : ProducerOpDone(t, ok)

SpecEvents == InitMedia /\ [][NextEvents]_vars

\* ------------------------------------------------------------ properties
\* the step resumes (and so consumes) the suspended handler t
Resumed(t) == CopiesIn(t, tasks') < CopiesIn(t, tasks)

\* the step suspends a handler t that was not there before
Suspended(t) == CopiesIn(t, tasks') > CopiesIn(t, tasks)

\* the participants of room r that belong to user u
MembersOf(r, u) ==
  IF r \in DOMAIN rooms
  THEN {p \in rooms[r].participants : participants[p].userId = u}
  ELSE {}

\* open connections of room r's broadcast set, other than c
OtherOpen(r, c) ==
  IF r \in DOMAIN roomConnections
  THEN {e \in roomConnections[r] : e # c /\ e \in connections
                                     /\ ws[e].readyState = "open"}
  ELSE {}

\* C1: every room holds at most maxParticipants participants, in every
\* reachable state (maxParticipants is kept in units of 1/Scale).
C1_CapacityRespected ==
  \A r \in DOMAIN rooms :
    Cardinality(rooms[r].participants) * Scale <= rooms[r].maxParticipants

\* C2: the global participant index holds at most one Participant per
\* (room id, user) pair, whatever the order and overlap of the joinRoom
\* requests.
C2_OneParticipantPerUser ==
  \A p, q \in DOMAIN participants :
    (/\ participants[p].roomId = participants[q].roomId
     /\ participants[p].userId = participants[q].userId) => p = q

\* C3: no step sends a participantJoined event for a participant to a
\* connection that was sent one for that participant before.
C3_AtMostOneParticipantJoined ==
  [][\A e \in BagToSet(out') :
       e.msg.type = "participantJoined"
         => <<e.to, "participantJoined", e.msg.pid>> \notin delivered]_vars

\* C4: a joinRoom that passes the access check while its user has a
\* Participant in the target room returns that participant, without error.
C4_MemberRejoinSucceeds ==
  [][\A t \in BagToSet(tasks) :
       (/\ Resumed(t) /\ t.type = "joinRoom" /\ t.pc = "access"
        /\ last'.result # "ROOM_ACCESS_DENIED"
        /\ MembersOf(t.roomId, conn[t.conn].user) # {})
       => /\ last'.result = "existing"
          /\ last'.pid \in MembersOf(t.roomId, conn[t.conn].user)]_vars

\* C5: a joinRoom that passes the access check, for a room that holds
\* maxParticipants participants (or more) none of which is the user's, fails
\* with "Room is full"; the room's participant set, the global participant
\* index, the connection's participant / room fields and the room's
\* broadcast set stay as they were, and only the requester is sent the error.
C5_RoomFullLeavesStateUnchanged ==
  [][\A t \in BagToSet(tasks) :
       (/\ Resumed(t) /\ t.type = "joinRoom" /\ t.pc = "access"
        /\ last'.result # "ROOM_ACCESS_DENIED"
        /\ t.roomId \in DOMAIN rooms
        /\ Cardinality(rooms[t.roomId].participants) * Scale
             >= rooms[t.roomId].maxParticipants
        /\ MembersOf(t.roomId, conn[t.conn].user) = {})
       => /\ last'.result = "Room is full"
          /\ rooms'[t.roomId].participants = rooms[t.roomId].participants
          /\ participants' = participants
          /\ conn' = conn
          /\ roomConnections' = roomConnections
          /\ \A e \in BagToSet(out') :
               e = Sent(t.conn, Msg("error", NoRoom, NoPid, {}, "Room is full"))
          /\ ~ \E t2 \in BagToSet(tasks') : Suspended(t2)]_vars

\* a joinRoom of a non-member was refused by a full, non-empty room
C5_Witness ==
  /\ last.op = "joinRoom" /\ last.result = "Room is full"
  /\ rooms[last.room].participants # {}
  /\ MembersOf(last.room, conn[last.conn].user) = {}
  /\ conn[last.conn].participantId = NoPid
  /\ \E e \in BagToSet(out) : e.to = last.conn /\ e.msg.error = "Room is full"

C7_RosterVisibility ==
  [][/\ \A t2 \in BagToSet(tasks') :
          (Suspended(t2) /\ t2.type = "joinRoom" /\ t2.pc = "audit")
          => LET inRoom == rooms'[t2.roomId].participants
                 listed == IF participants'[t2.pid].isHidden THEN inRoom
                           ELSE {p \in inRoom : ~participants'[p].isHidden}
             IN /\ {i.id : i \in t2.roster} = listed
                /\ Cardinality(t2.roster) = Cardinality(listed)
                /\ \A i \in t2.roster :
                     /\ i.userId = participants'[i.id].userId
                     /\ i.isHidden = participants'[i.id].isHidden
     /\ \A t \in BagToSet(tasks) :
          (Resumed(t) /\ t.type = "joinRoom" /\ t.pc = "audit")
          => \A e \in BagToSet(out') :
               e.msg.type = "joinRoomResponse"
                 => /\ e.to = t.conn
                    /\ e.msg.infos = t.roster
                    /\ (\E i \in e.msg.infos : i.isHidden) => t.isHidden
     /\ (\E e \in BagToSet(out') : e.msg.type = "joinRoomResponse")
          => \E t \in BagToSet(tasks) :
               Resumed(t) /\ t.type = "joinRoom" /\ t.pc = "audit"]_vars

\* a joinRoomResponse lists the non-hidden joiner and leaves out a hidden
\* participant of the room
C7_Witness ==
  \E e \in BagToSet(out) :
    /\ e.msg.type = "joinRoomResponse"
    /\ e.msg.infos # {}
    /\ \A i \in e.msg.infos : ~i.isHidden
    /\ e.msg.room \in DOMAIN rooms
    /\ \E p \in rooms[e.msg.room].participants :
         participants[p].isHidden /\ p \notin {i.id : i \in e.msg.infos}

\* C8: every participantJoined event is sent by the last step of a joinRoom
\* whose participant is that of the event and is not hidden; a joinRoom
\* whose participant is hidden sends none.
C8_HiddenJoinNotAnnounced ==
  [][/\ \A e \in BagToSet(out') :
          e.msg.type = "participantJoined"
            => \E t \in BagToSet(tasks) :
                 /\ Resumed(t) /\ t.type = "joinRoom" /\ t.pc = "audit"
                 /\ t.pid = e.msg.pid /\ ~t.isHidden
                 /\ \A i \in e.msg.infos : i.id = t.pid /\ ~i.isHidden
     /\ \A t \in BagToSet(tasks) :
          (Resumed(t) /\ t.type = "joinRoom" /\ t.pc = "audit" /\ t.isHidden)
          => /\ \A e \in BagToSet(out') : e.msg.type # "participantJoined"
             /\ delivered' = delivered]_vars

\* a joinRoom that created a hidden participant has been answered while
\* another open connection was in the room's broadcast set
C8_Witness ==
  /\ last.op = "reply" /\ last.result = "joinRoomResponse"
  /\ last.pid \in DOMAIN participants
  /\ participants[last.pid].isHidden
  /\ participants[last.pid].joinedAt = now
  /\ OtherOpen(last.room, last.conn) # {}

C10_LeaveRoomClosesOwnedHandles ==
  [][(/\ last'.op \in {"leaveRoom", "disconnect"}
      /\ last'.result = "ok" /\ last'.pid # NoPid)
     => LET pid == last'.pid
            owned == OwnedHandles(participants[pid])
        IN /\ pid \in rooms[last'.room].participants
           /\ pid \notin rooms'[last'.room].participants
           /\ pid \notin DOMAIN participants'
           /\ DOMAIN participants' = DOMAIN participants \ {pid}
           /\ \A q \in DOMAIN participants' :
                /\ participants'[q].producers = participants[q].producers
                /\ participants'[q].consumers = participants[q].consumers
                /\ OwnedHandles(participants'[q]) \cap owned = {}
           /\ \A r \in DOMAIN rooms' :
                rooms'[r].participants = rooms[r].participants \ {pid}
           /\ DOMAIN handles' = DOMAIN handles
           /\ \A h \in owned :
                handles[h].closeCalls = 0 /\ handles'[h].closeCalls = 1
           /\ \A h \in DOMAIN handles \ owned : handles'[h] = handles[h]]_vars

\* a participant that owned a send transport, a receive transport, a
\* producer and a consumer has left through leaveRoom, while another
\* participant holds a producer
C10_Witness ==
  /\ last.op = "leaveRoom" /\ last.result = "ok"
  /\ last.pid \notin DOMAIN participants
  /\ LET closed == {h \in DOMAIN handles : handles[h].closeCalls = 1}
     IN /\ Cardinality({h \in closed : handles[h].kind = "transport"}) = 2
        /\ \E h \in closed : handles[h].kind = "producer"
        /\ \E h \in closed : handles[h].kind = "consumer"
  /\ \E q \in DOMAIN participants : participants[q].producers # {}

\* C11: in every reachable state a room that holds a participant is active
\* and no room is ever unregistered; a step in which RoomService.leaveRoom
\* (in handleLeaveRoom or in handleDisconnection) removes the last
\* participant of a room leaves the room registered, empty and inactive; a
\* joinRoom that passes the access check (and, for an auto-created room, the
\* router creation) leaves the target room active, also when it was inactive.
C11_EmptyRoomInactiveUntilJoin ==
  /\ [](\A r \in DOMAIN rooms : rooms[r].participants # {} => rooms[r].isActive)
  /\ [][/\ DOMAIN rooms \subseteq DOMAIN rooms'
        /\ (/\ last'.op \in {"leaveRoom", "disconnect"}
            /\ last'.result = "ok" /\ last'.pid # NoPid
            /\ rooms[last'.room].participants = {last'.pid})
           => /\ last'.room \in DOMAIN rooms'
              /\ rooms'[last'.room].participants = {}
              /\ ~rooms'[last'.room].isActive
        /\ \A t \in BagToSet(tasks) :
             (/\ Resumed(t) /\ t.type = "joinRoom"
              /\ t.pc \in {"access", "createRouter"}
              /\ last'.result \notin {"ROOM_ACCESS_DENIED", "auto-create",
                                      "Failed to create room"})
             => rooms'[t.roomId].isActive]_vars

\* a joinRoom found its room registered, emptied by a disconnect or a
\* leaveRoom and inactive, and its joiner is the only participant of the room,
\* which is active again
C11_Witness ==
  /\ last.op = "joinRoom" /\ last.at = "access" /\ last.result = "created"
  /\ rooms[last.room].participants = {last.pid}
  /\ rooms[last.room].isActive
  /\ \E p \in 1 .. (last.pid - 1) : p \notin DOMAIN participants

\* connection c is associated with a participant in a room
Associated(c) == conn[c].participantId # NoPid /\ conn[c].roomId # NoRoom

\* the Entity Store (rooms with their active flags and participant sets,
\* participants with their producers and consumers, engine handles) once
\* the participant of connection c has left the room of c
LeftStore(c) ==
  LET r == leaveRoom(rooms, participants, conn[c].roomId, conn[c].participantId)
  IN <<r.rooms, r.participants, CloseAll(handles, r.closed)>>

\* C12: a run of disconnect cleanup for a connection c associated with
\* participant P in room R leaves the Entity Store as RoomService.leaveRoom
\* (R, P) does, and deregisters c.  A leaveRoom request of c for R that
\* succeeds leaves the Entity Store in that same state and ends the
\* association, so that the deregistration of c that follows changes nothing
\* in the Entity Store; one that fails changes neither the Entity Store nor
\* the association, so that the deregistration that follows is the cleanup
\* above.
C12_DisconnectEqualsLeaveThenDeregister ==
  [][LET c == last'.conn
     IN /\ last'.op \in {"disconnect", "error"}
           => /\ <<rooms', participants', handles'>> =
                   IF Associated(c) THEN LeftStore(c)
                   ELSE <<rooms, participants, handles>>
              /\ c \notin connections'
        /\ (last'.op = "leaveRoom" /\ Associated(c) /\ last'.room = conn[c].roomId)
           => IF last'.result = "ok"
              THEN /\ <<rooms', participants', handles'>> = LeftStore(c)
                   /\ conn'[c].participantId = NoPid
                   /\ conn'[c].roomId = NoRoom
              ELSE /\ <<rooms', participants', handles'>> =
                        <<rooms, participants, handles>>
                   /\ conn'[c] = conn[c]]_vars

\* a connection has been disconnected while its participant held producers,
\* which are gone from the Entity Store, after another connection had left
\* the room by leaveRoom and had then been deregistered
C12_Witness ==
  /\ last.op = "disconnect" /\ last.result = "ok" /\ last.pid # NoPid
  /\ last.pid \notin DOMAIN participants
  /\ \E h \in DOMAIN handles :
       handles[h].kind = "producer" /\ handles[h].closeCalls = 1
  /\ \E c \in DOMAIN conn :
       /\ c # last.conn /\ c \notin connections
       /\ ws[c].readyState = "closed"
       /\ conn[c].participantId = NoPid
  /\ participants = EmptyFn

\* C13: a run of disconnect cleanup (by the socket's close or error event)
\* for a connection that disconnect cleanup has run for before changes
\* neither the Entity Store nor the registry nor the broadcast sets and
\* sends no envelope.
C13_SecondCleanupIsNoOp ==
  [][(last'.op \in {"disconnect", "error"} /\ ws[last'.conn].cleaned)
     => /\ <<rooms', participants', handles'>> = <<rooms, participants, handles>>
        /\ connections' = connections
        /\ roomConnections' = roomConnections
        /\ out' = EmptyBag]_vars

\* C16: lastPing of a connection changes only in the step of its pong
\* event; and a heartbeat sweep that finds a registered connection whose
\* registration and last pong are both more than the timeout ago closes its
\* socket and deregisters it.
C16_SilentConnectionIsClosed ==
  [][/\ \A c \in DOMAIN conn :
          conn'[c].lastPing # conn[c].lastPing
            => last'.op = "pong" /\ last'.conn = c
     /\ last'.op = "sweep"
        => \A c \in connections :
             now - conn[c].lastAck > HeartbeatTimeout
               => c \notin connections' /\ ws'[c].readyState # "open"]_vars

\* C14: in every reachable state the registry holds at most one connection
\* per user; a step that accepts a user on a new connection deregisters
\* exactly the connections registered for that user, closes their sockets
\* with code 1000 and registers the new connection; every other socket, every
\* other connection object and the registration of every other user's
\* connection stay as they were.
C14_OneConnectionPerUser ==
  /\ [](\A c, e \in connections : conn[c].user = conn[e].user => c = e)
  /\ [][(last'.op = "connect" /\ last'.result = "ok")
        => LET c == last'.conn
               u == conn'[c].user
               earlier == {e \in connections : conn[e].user = u}
           IN /\ c \notin DOMAIN conn
              /\ connections' = (connections \ earlier) \cup {c}
              /\ \A e \in earlier :
                   /\ ws'[e].readyState # "open"
                   /\ ws[e].readyState = "open" => ws'[e].closeCode = 1000
              /\ \A e \in DOMAIN ws \ earlier : ws'[e] = ws[e]
              /\ \A e \in DOMAIN conn : conn'[e] = conn[e]]_vars

\* a user has been accepted on a new connection while it had a registered
\* one, which is closed with code 1000 and deregistered, and the other
\* user's connection is registered and open
C14_Witness ==
  /\ last.op = "connect" /\ last.result = "ok"
  /\ \E e \in DOMAIN conn :
       /\ e # last.conn /\ conn[e].user = conn[last.conn].user
       /\ e \notin connections
       /\ ws[e].readyState = "closing" /\ ws[e].closeCode = 1000
  /\ \E e \in connections :
       conn[e].user # conn[last.conn].user /\ ws[e].readyState = "open"

\* an attempt of user u that was accepted less than the minimum interval ago
RecentlyAccepted(u) ==
  \E e \in DOMAIN conn :
    conn[e].user = u /\ now - ws[e].at < MinConnectionInterval

\* an attempt of user u, accepted or not, less than the minimum interval ago
RecentlyAttempted(u) ==
  \E e \in DOMAIN ws :
    ws[e].user = u /\ now - ws[e].at < MinConnectionInterval

\* the attempt on socket c was turned away by the rate limit: the socket is
\* closed with code 1008, is not registered, is sent nothing, and the
\* registry and every other socket stay as they were
RateLimited(c) ==
  /\ last'.result = "Rate limited"
  /\ ws'[c].readyState = "closed" /\ ws'[c].closeCode = 1008
  /\ c \notin DOMAIN conn' /\ c \notin connections'
  /\ out' = EmptyBag
  /\ connections' = connections
  /\ conn' = conn
  /\ \A e \in DOMAIN ws : ws'[e] = ws[e]

\* C15 as stated: an authenticated connection attempt of a user that follows
\* another attempt of that user by less than the minimum interval is turned
\* away by the rate limit.
C15_CloseAttemptsRateLimited ==
  [][(last'.op = "connect" /\ last'.result # "Authentication failed"
        /\ RecentlyAttempted(ws'[last'.conn].user))
     => RateLimited(last'.conn)]_vars

\* C15: an authenticated connection attempt of a user that follows the
\* user's last accepted attempt by less than the minimum interval is turned
\* away by the rate limit: its socket is closed with code 1008, it is never
\* registered and is sent no connected event, and the user's registered
\* connection stays registered with its socket as it was.
C15_AttemptAfterAcceptedRateLimited ==
  [][(last'.op = "connect" /\ last'.result # "Authentication failed"
        /\ RecentlyAccepted(ws'[last'.conn].user))
     => RateLimited(last'.conn)]_vars

\* an attempt was turned away by the rate limit while its user has a
\* registered connection with an open socket
C15_Witness ==
  /\ last.op = "connect" /\ last.result = "Rate limited"
  /\ ws[last.conn].closeCode = 1008
  /\ last.conn \notin DOMAIN conn
  /\ out = EmptyBag
  /\ \E e \in connections :
       conn[e].user = ws[last.conn].user /\ ws[e].readyState = "open"

\* ---------------------------------------------------------------- C17
\* the reply envelopes (not room events) put on the socket of c by the step
Replies(c) ==
  {e \in BagToSet(out') : e.to = c /\ e.msg.type \notin RoomEvents}

\* the step finishes the handler of an envelope of c: it was answered at
\* once, or its suspended handler resumed and returned or threw
Finished(c) ==
  /\ last'.conn = c
  /\ last'.op \in MessageTypes \cup {"unknown"}

\* C17: every well-formed envelope of type X is answered at most once: the
\* step that finishes its handler sends the connection exactly one reply if
\* the connection is registered and open then and none otherwise, no other
\* step of the handler sends it a reply, the reply is of type XResponse or
\* error, and it carries the envelope's requestId verbatim when the envelope
\* had one.
C17_OneReplyEchoingRequestId ==
  [][\A c \in DOMAIN conn :
       /\ ~Finished(c) => Replies(c) = {}
       /\ Finished(c) =>
            /\ BagCardinality(out') - BagCardinality(
                 [e \in BagToSet(out') \ Replies(c) |-> out'[e]]) =
                 (IF c \in connections' /\ ws'[c].readyState = "open"
                  THEN 1 ELSE 0)
            /\ \A t \in BagToSet(tasks') : ~Suspended(t)
            /\ \A e \in Replies(c) :
                 /\ e.msg.type \in {ResponseType(last'.op), "error"}
                 /\ last'.requestId # NoRequestId =>
                      e.msg.requestId = last'.requestId]_vars

\* ---------------------------------------------------------------- C18
\* C18: a frame that is not valid JSON is answered with exactly one envelope,
\* an error with error INVALID_MESSAGE put on the sender's socket; the
\* sender's connection stays open and registered; rooms, participants,
\* engine handles, the registry, the connection objects, the sockets, the
\* room associations and the suspended handlers are as before.
C18_MalformedFrameRejected ==
  [][\A c \in DOMAIN conn :
       (last'.op = "message" /\ last'.conn = c) =>
         /\ BagCardinality(out') = 1
         /\ \A e \in BagToSet(out') :
              /\ e.to = c
              /\ e.msg.type = "error"
              /\ e.msg.error = "INVALID_MESSAGE"
         /\ c \in connections' /\ ws'[c].readyState = "open"
         /\ UNCHANGED <<rooms, participants, handles, connections, conn, ws,
                        roomConnections, tasks>>]_vars

\* a frame that does not parse has been answered on a connection that is in
\* a room with another member
C18_Witness ==
  /\ last.op = "message"
  /\ Associated(last.conn)
  /\ \E e \in BagToSet(out) : e.to = last.conn /\ e.msg.error = "INVALID_MESSAGE"
  /\ \E r \in DOMAIN roomConnections :
       last.conn \in roomConnections[r] /\ Cardinality(roomConnections[r]) > 1

\* ---------------------------------------------------------------- C19
\* C19: an envelope whose data violates the schema of its type is answered
\* with an error envelope that names the code VALIDATION_ERROR (the envelope
\* has the members type, error and requestId, so the error text is all that
\* can name the code and the field), and the step changes no room, no
\* participant and no engine handle, starts no engine call and puts no
\* envelope on another socket.
C19_ValidationErrorIdentified ==
  [][\A c \in DOMAIN conn :
       (last'.at = "validateRequest" /\ last'.conn = c) =>
         /\ \E e \in BagToSet(out') :
              /\ e.to = c
              /\ e.msg.type = "error"
              /\ e.msg.error = validateRequest(last'.op).code
         /\ UNCHANGED <<rooms, participants, handles, tasks, roomConnections,
                        conn>>
         /\ \A e \in BagToSet(out') : e.to = c]_vars

\* ---------------------------------------------------------------- C20
\* the message types whose handler needs the connection to be in a room
InRoomTypes ==
  {"leaveRoom", "getRouterRtpCapabilities", "createWebRtcTransport",
   "connectWebRtcTransport", "restartIce", "publish", "unpublish",
   "subscribe", "unsubscribe", "pause", "resume", "pauseProducer",
   "resumeProducer", "setPreferredLayers"}

\* the step is the receipt, with schema-valid data, of an envelope of one of
\* these types on connection c
ReceivedInRoomRequest(c) ==
  /\ last'.conn = c
  /\ last'.at # "validateRequest"
  /\ \/ last'.op \in InRoomTypes
     \/ last'.op = "recv" /\ last'.result \in InRoomTypes
  /\ \A t \in BagToSet(tasks) : ~Resumed(t)

\* C20: each of the fourteen requests, received with schema-valid data on a
\* connection that has no participant in a room, is answered with one error
\* PARTICIPANT_NOT_IN_ROOM on that connection's socket and nothing else is
\* sent; rooms, participants, engine handles, the registry, the connection
\* objects, the sockets, the room associations and the suspended handlers
\* are as before.
C20_NotInRoomRefused ==
  [][\A c \in DOMAIN conn :
       (ReceivedInRoomRequest(c) /\ ~Associated(c)) =>
         /\ last'.op \in InRoomTypes
         /\ out' = SetToBag({Sent(c, Msg("error", NoRoom, NoPid, {},
                                         "PARTICIPANT_NOT_IN_ROOM"))})
         /\ UNCHANGED <<rooms, participants, handles, connections, conn, ws,
                        roomConnections, tasks>>]_vars

\* a request on a consumer has been refused on the connection of A, which
\* has left the room in which B still is with its producer
C20_Witness ==
  /\ last.op = "setPreferredLayers"
  /\ last.result = "PARTICIPANT_NOT_IN_ROOM"
  /\ ~Associated(last.conn)
  /\ \E e \in BagToSet(out) : e.to = last.conn /\ e.msg.type = "error"
  /\ \E r \in DOMAIN rooms : rooms[r].participants # {}

\* ---------------------------------------------------------------- C21
\* C21: no step puts a room event (participantJoined, participantLeft,
\* producerCreated, producerClosed, producerPaused, producerResumed) on the
\* socket of the connection whose request or whose socket close the step
\* handles.
C21_NoRoomEventToOriginator ==
  [][\A e \in BagToSet(out') :
       e.msg.type \in RoomEvents => e.to # last'.conn]_vars

\* a room event caused by a request of one member has been put on the
\* socket of the other member, while the requester is registered, open and
\* in the room's connection set
C21_Witness ==
  /\ last.conn \in connections
  /\ ws[last.conn].readyState = "open"
  /\ \E r \in DOMAIN roomConnections : last.conn \in roomConnections[r]
  /\ \E e \in BagToSet(out) : e.msg.type \in RoomEvents /\ e.to # last.conn

\* ---------------------------------------------------------------- C22
\* C22: for createRoom, joinRoom and leaveRoom, a failure of the audit-log
\* write or of the webhook does not change the handler's outcome: when the
\* handler resumes after the failed call, a requester that is registered
\* and open is sent the success response, and a leaveRoom removes the
\* connection's participant from the Entity Store and tells the other
\* connections of the room.
C22_WebhookFailureKeepsOutcome ==
  [][\A t \in BagToSet(tasks) :
       (/\ t.type \in {"createRoom", "joinRoom", "leaveRoom"}
        /\ t.pc = "audit"
        /\ Resumed(t)
        /\ \/ CreateRoomFinish(t, FALSE)
           \/ JoinFinish(t, FALSE)
           \/ LeaveFinish(t, FALSE)) =>
         /\ (t.conn \in connections /\ ws[t.conn].readyState = "open") =>
              \E e \in BagToSet(out') :
                e.to = t.conn /\ e.msg.type = ResponseType(t.type)
         /\ t.type = "leaveRoom" =>
              /\ conn[t.conn].participantId \notin DOMAIN participants'
              /\ \A b \in OtherOpen(t.roomId, t.conn) :
                   \E e \in BagToSet(out') :
                     e.to = b /\ e.msg.type = "participantLeft"]_vars

\* C23: whenever a request is answered with an error envelope, no message
\* caused by that request is delivered to any other connection: a step
\* that sends an error envelope to the connection it handles sends nothing
\* to anyone else.
C23_ErrorReplyMeansNoBroadcast ==
  [][(\E e \in BagToSet(out') :
        e.to = last'.conn /\ e.msg.type = "error") =>
       \A e \in BagToSet(out') : e.to = last'.conn]_vars

\* C24: on a single connection a handler runs to completion, awaits
\* included, before the handler of the next envelope starts: no connection
\* ever has two handlers in progress.
C24_OneHandlerPerConnection ==
  \A t1 \in BagToSet(tasks) :
    /\ CopiesIn(t1, tasks) = 1
    /\ \A t2 \in BagToSet(tasks) : t2.conn = t1.conn => t2 = t1

\* C25: every successful subscribeResponse reports paused = false, and when
\* it is sent the consumer it names has been resumed at the media engine.
C25_SubscribeResponseResumed ==
  [][\A e \in BagToSet(out') :
       e.msg.type = "subscribeResponse" =>
         /\ e.msg.paused = FALSE
         /\ e.msg.handle \in DOMAIN handles'
         /\ handles'[e.msg.handle].paused = FALSE]_vars

\* the connections whose subscribe to producer x succeeded (the consumer is
\* in their participant's map and was resumed at the engine) and that are
\* registered, open and in room r as a participant of the Entity Store
SubscribersOf(x, r) ==
  {b \in connections :
     /\ ws[b].readyState = "open"
     /\ conn[b].roomId = r
     /\ r \in DOMAIN roomConnections /\ b \in roomConnections[r]
     /\ conn[b].participantId \in DOMAIN participants
     /\ \E k \in participants[conn[b].participantId].consumers :
          /\ k.producerId = x
          /\ ~handles[k.id].paused}

\* C26: a subscribeResponse carries the id of the producer the request
\* named, and when the owner of producer X unpublishes it, every connection
\* that subscribed to X and is still open and in the owner's room receives
\* a producerClosed event naming X.
C26_SubscriberToldOfUnpublish ==
  [][/\ \A e \in BagToSet(out') :
          e.msg.type = "subscribeResponse" =>
            \E t \in BagToSet(tasks) :
              /\ Resumed(t) /\ t.type = "subscribe"
              /\ e.to = t.conn /\ e.msg.producerId = t.producerId
     /\ \A a \in DOMAIN conn :
          (last'.conn = a /\ last'.op = "unpublish" /\ last'.result = "ok") =>
            \A x \in ProducersOf(a) \ ProducersOf(a)' :
              \A b \in SubscribersOf(x, conn[a].roomId) :
                \E e \in BagToSet(out') :
                  /\ e.to = b /\ e.msg.type = "producerClosed"
                  /\ e.msg.handle = x]_vars

\* C27: every Consumer in the Entity Store reads from a Producer that is
\* still in the Entity Store.
C27_ConsumersReadStoredProducers ==
  \A p \in DOMAIN participants :
    \A k \in participants[p].consumers :
      \E q \in DOMAIN participants : k.producerId \in participants[q].producers

\* C28: a publish by a participant of the named room that holds no send
\* transport, and a subscribe by one that holds no receive transport, is
\* refused with the TRANSPORT_NOT_FOUND error: the requester gets that error,
\* no producer or consumer is added to the Entity Store, no media-engine
\* call is started (no handler is suspended, no handle is created) and no
\* envelope goes to another connection.
C28_NoTransportRefused ==
  [][\A c \in DOMAIN conn, d \in {"send", "recv"} :
       LET op == IF d = "send" THEN "publish" ELSE "subscribe"
           pid == conn[c].participantId
       IN (/\ last'.conn = c
           /\ last'.op = op \/ (last'.op = "recv" /\ last'.result = op)
           /\ \A t \in BagToSet(tasks) : ~Resumed(t)
           /\ MediaChecks(c, last'.room) = ""
           /\ (IF d = "send" THEN participants[pid].sendTransport
               ELSE participants[pid].recvTransport) = NoHandle) =>
            /\ TransportNotFound(d).code = "TRANSPORT_NOT_FOUND"
            /\ last'.op = op
            /\ last'.result = TransportNotFound(d).message
            /\ out' = sendError(EmptyBag, c, TransportNotFound(d).message)
            /\ UNCHANGED <<rooms, participants, handles, tasks, nextHandle>>]_vars

C28_Witness ==
  /\ last.op = "publish"
  /\ last.result = TransportNotFound("send").message
  /\ \E e \in BagToSet(out) : e.to = last.conn /\ e.msg.type = "error"
  /\ \E c \in connections \ {last.conn} : ws[c].readyState = "open"

C30_UnknownTypeNamed ==
  [][last'.op = "unknown" =>
       /\ \E e \in BagToSet(out') :
            /\ e.to = last'.conn /\ e.msg.type = "error"
            /\ e.msg.error = UnknownMessageType
       /\ \A e \in BagToSet(out') : e.to = last'.conn
       /\ UNCHANGED <<rooms, participants, connections, conn, ws,
                      roomConnections, tasks, handles>>]_vars

\* C31: a joinRoom request naming a room id that does not exist is answered
\* with an error envelope whose error is 'Room not found', and no room or
\* participant is created: every step of such a handler leaves the rooms
\* and the participants as they are, and the step after a granted access
\* check sends that error to a requester that is registered and open.
C31_JoinUnknownRoomRefused ==
  [][\A t \in BagToSet(tasks) :
       (Resumed(t) /\ t.type = "joinRoom" /\ t.roomId \notin DOMAIN rooms) =>
         /\ rooms' = rooms /\ participants' = participants
         /\ (/\ t.pc = "access" /\ last'.result # "ROOM_ACCESS_DENIED"
             /\ t.conn \in connections /\ ws[t.conn].readyState = "open") =>
              \E e \in BagToSet(out') :
                /\ e.to = t.conn /\ e.msg.type = "error"
                /\ e.msg.error = "Room not found"]_vars

\* the room event a finishing handler broadcasts in this step, "" if none
Announced ==
  IF last'.op = "leaveRoom" /\ last'.result = "ok" THEN "participantLeft"
  ELSE IF last'.op = "reply" /\ last'.result = "joinRoomResponse+announce"
  THEN "participantJoined"
  ELSE ""

C33_PreconditionHoldsAtInsert ==
  [][/\ \A t \in BagToSet(tasks) :
          (/\ Resumed(t) /\ nextHandle' = nextHandle + 1
           /\ t.pc \in {"createProducer", "createConsumer"}) =>
            /\ t.roomId \in DOMAIN rooms
            /\ t.pid \in rooms[t.roomId].participants
            /\ t.pid \in DOMAIN participants
            /\ t.handle = (IF t.pc = "createProducer"
                           THEN participants[t.pid].sendTransport
                           ELSE participants[t.pid].recvTransport)
     /\ \A p \in DOMAIN participants' \ DOMAIN participants :
          /\ participants'[p].roomId \in DOMAIN rooms'
          /\ p \in rooms'[participants'[p].roomId].participants]_vars

\* C34: a registered connection whose participantId is set refers to a
\* participant that exists in the Entity Store, in the room named by the
\* connection's roomId.
C34_ConnectionNamesStoredParticipant ==
  \A c \in connections :
    conn[c].participantId # NoPid =>
      /\ conn[c].participantId \in DOMAIN participants
      /\ conn[c].roomId \in DOMAIN rooms
      /\ conn[c].participantId \in rooms[conn[c].roomId].participants

\* C35: once a connection has been deregistered and every handler started
\* on it has finished, the Entity Store holds no participant created by a
\* joinRoom on that connection (a participant of the connection's user,
\* where every user has one connection).
C35_NoParticipantAfterDeregistration ==
  \A c \in DOMAIN conn :
    (/\ c \notin connections
     /\ \A t \in BagToSet(tasks) : t.conn # c
     /\ \A d \in DOMAIN conn : conn[d].user = conn[c].user => d = c) =>
      \A p \in DOMAIN participants : participants[p].userId # conn[c].user

\* C36: a room-scoped event triggered by a connection's request or close
\* is delivered only to connections of the room the connection is
\* associated with when the event is sent; the roomId of the request data
\* cannot direct it into a different room.
C36_EventsStayInRequestersRoom ==
  [][\A e \in BagToSet(out') :
       (e.msg.type \in RoomEvents /\ last'.conn \in DOMAIN conn) =>
         /\ conn[last'.conn].roomId \in DOMAIN roomConnections
         /\ e.to \in roomConnections[conn[last'.conn].roomId]]_vars

\* C37: the connection of a non-hidden participant never receives a
\* message that names a hidden participant's id, neither in a roster nor
\* in a participantJoined, participantLeft, producerCreated,
\* producerClosed, producerPaused or producerResumed event.
C37_HiddenNeverNamedToVisible ==
  [][\A e \in BagToSet(out') :
       \A q \in DOMAIN participants' : \A h \in DOMAIN participants :
         (/\ e.to \in DOMAIN conn'
          /\ conn'[e.to].participantId = q
          /\ ~participants'[q].isHidden
          /\ participants[h].isHidden) =>
           /\ e.msg.pid # h
           /\ \A i \in e.msg.infos : i.id # h]_vars

\* C38: in every reachable state each connection id appears in the
\* broadcast connection set of at most one room, the room recorded as the
\* connection's current room, and the store holds no participant of a
\* registered connection's user in another room than that one.
C38_OneRoomPerConnection ==
  /\ \A c \in DOMAIN conn : \A r \in DOMAIN roomConnections :
       c \in roomConnections[r] => conn[c].roomId = r
  /\ \A c \in connections : \A p \in DOMAIN participants :
       (conn[c].participantId # NoPid /\ participants[p].userId = conn[c].user) =>
         participants[p].roomId = conn[c].roomId

\* C39: the global participant index and the per-room participant maps
\* agree: a participant is in the global index if and only if it is in
\* the participant map of the Room registered under its roomId.
C39_IndexAgreesWithRooms ==
  /\ \A p \in DOMAIN participants :
       /\ participants[p].roomId \in DOMAIN rooms
       /\ p \in rooms[participants[p].roomId].participants
  /\ \A r \in DOMAIN rooms : \A p \in rooms[r].participants :
       p \in DOMAIN participants /\ participants[p].roomId = r

\* C40: after a participant has been removed by leaveRoom or a disconnect,
\* every media-engine transport created for it has received a close call,
\* a superseded one included; so when the removal of the last participant
\* of the store is done, no transport created until then is left without
\* a close call.
C40_RemovedParticipantsTransportsClosed ==
  [][(DOMAIN participants # {} /\ DOMAIN participants' = {}) =>
       \A h \in DOMAIN handles' :
         handles'[h].kind = "transport" => handles'[h].closeCalls > 0]_vars

====
